---- MODULE Spec2Model ----
(***************************************************************************)
(* The MCP tool handlers of app/mcp/route.ts (get_guidelines,              *)
(* search_guidelines, validate_pattern, get_updated_docs, get_quick_tips)  *)
(* over the hardcoded guideline corpus.                                    *)
(*                                                                         *)
(* A JavaScript string is modelled as the sequence of its UTF-16 code      *)
(* units (what length, charAt, slice, includes and substring work on), so  *)
(* "all" is <<97,108,108>>.  Every text literal of the source is written   *)
(* out that way, with the literal in a comment on the line above.          *)
(***************************************************************************)
EXTENDS Integers, Sequences, FiniteSets, Bags, TLC

VARIABLES
  guidelines,  \* the module-level corpus object (route.ts:17)
  request,     \* the tool call the gateway has parsed and not yet dispatched
  inflight,    \* the bag of get_updated_docs invocations suspended at an await
  response,    \* the tool result a handler returned last, until it is sent back
  frame,       \* the locals of the handler that produced `response`
  watch,       \* history: the call whose outputs are compared (never changes)
  first        \* history: what the first invocation of `watch` returned

vars == <<guidelines, request, inflight, response, frame, watch, first>>

\* JavaScript's undefined (an optional argument that was not given) and null:
\* neither is a string, so neither is a sequence of code units.
undefined == <<-1>>
null == <<-2>>

(***************************************************************************)
(* Text literals of route.ts                                               *)
(***************************************************************************)
\* "all"
str_all == <<97,108,108>>
\* "bogus"
str_bogus == <<98,111,103,117,115>>
\* "preview"
str_preview == <<112,114,101,118,105,101,119>>
\* "full"
str_full == <<102,117,108,108>>
\* "interactivity"
str_interactivity == <<105,110,116,101,114,97,99,116,105,118,105,116,121>>
\* "typography"
str_typography == <<116,121,112,111,103,114,97,112,104,121>>
\* "motion"
str_motion == <<109,111,116,105,111,110>>
\* "touch"
str_touch == <<116,111,117,99,104>>
\* "accessibility"
str_accessibility == <<97,99,99,101,115,115,105,98,105,108,105,116,121>>
\* "optimizations"
str_optimizations == <<111,112,116,105,109,105,122,97,116,105,111,110,115>>
\* "design"
str_design == <<100,101,115,105,103,110>>
\* "forms"
str_forms == <<102,111,114,109,115>>
\* "buttons"
str_buttons == <<98,117,116,116,111,110,115>>
\* "animations"
str_animations == <<97,110,105,109,97,116,105,111,110,115>>
\* "mobile"
str_mobile == <<109,111,98,105,108,101>>
\* "## "
lit_h2 == <<35,35,32>>
\* "\n"
lit_nl == <<10>>
\* "\n\n"
lit_nlnl == <<10,10>>
\* "- "
lit_bullet == <<45,32>>
\* " Guidelines\n"
lit_guidelines_suffix == <<32,71,117,105,100,101,108,105,110,101,115,10>>
\* "Category \""
lit_category_open == <<67,97,116,101,103,111,114,121,32,34>>
\* "\" not found. Available categories: "
lit_not_found == <<34,32,110,111,116,32,102,111,117,110,100,46,32,65,118,97,105,108,97,98,108,101,32,99,97,116,101,103,111,114,105,101,115,58,32>>
\* ", "
lit_comma == <<44,32>>
\* "**"
lit_bold == <<42,42>>
\* "**: "
lit_bold_colon == <<42,42,58,32>>
\* "No guidelines found matching \""
lit_no_match == <<78,111,32,103,117,105,100,101,108,105,110,101,115,32,102,111,117,110,100,32,109,97,116,99,104,105,110,103,32,34>>
\* "\""
lit_quote == <<34>>
\* "Found "
lit_found == <<70,111,117,110,100,32>>
\* " guidelines matching \""
lit_matching == <<32,103,117,105,100,101,108,105,110,101,115,32,109,97,116,99,104,105,110,103,32,34>>
\* "\":\n\n"
lit_found_end == <<34,58,10,10>>
\* "## Pattern Validation for: \""
lit_validation_header == <<35,35,32,80,97,116,116,101,114,110,32,86,97,108,105,100,97,116,105,111,110,32,102,111,114,58,32,34>>
\* "\"\n\n"
lit_header_end == <<34,10,10>>
\* "### \u26A0\uFE0F Potential Issues:\n"
lit_issues == <<35,35,35,32,9888,65039,32,80,111,116,101,110,116,105,97,108,32,73,115,115,117,101,115,58,10>>
\* "### \u2705 Relevant Recommendations:\n"
lit_recommendations == <<35,35,35,32,9989,32,82,101,108,101,118,97,110,116,32,82,101,99,111,109,109,101,110,100,97,116,105,111,110,115,58,10>>
\* "No specific violations or recommendations found for this pattern."
lit_nothing_found == <<78,111,32,115,112,101,99,105,102,105,99,32,118,105,111,108,97,116,105,111,110,115,32,111,114,32,114,101,99,111,109,109,101,110,100,97,116,105,111,110,115,32,102,111,117,110,100,32,102,111,114,32,116,104,105,115,32,112,97,116,116,101,114,110,46>>
\* "Failed to fetch latest documentation from GitHub repository."
lit_fetch_failed == <<70,97,105,108,101,100,32,116,111,32,102,101,116,99,104,32,108,97,116,101,115,116,32,100,111,99,117,109,101,110,116,97,116,105,111,110,32,102,114,111,109,32,71,105,116,72,117,98,32,114,101,112,111,115,105,116,111,114,121,46>>
\* "## Latest Documentation from GitHub\n\n"
lit_docs_header == <<35,35,32,76,97,116,101,115,116,32,68,111,99,117,109,101,110,116,97,116,105,111,110,32,102,114,111,109,32,71,105,116,72,117,98,10,10>>
\* "```markdown\n"
lit_fence_open == <<96,96,96,109,97,114,107,100,111,119,110,10>>
\* "...\n(truncated - use format: 'full' for complete content)"
lit_truncated == <<46,46,46,10,40,116,114,117,110,99,97,116,101,100,32,45,32,117,115,101,32,102,111,114,109,97,116,58,32,39,102,117,108,108,39,32,102,111,114,32,99,111,109,112,108,101,116,101,32,99,111,110,116,101,110,116,41>>
\* "\n```"
lit_fence_close == <<10,96,96,96>>
\* " Quick Tips\n\n"
lit_quick_tips == <<32,81,117,105,99,107,32,84,105,112,115,10,10>>
\* "avoid"
marker_avoid == <<97,118,111,105,100>>
\* "don't"
marker_dont == <<100,111,110,39,116>>
\* "prevent"
marker_prevent == <<112,114,101,118,101,110,116>>
\* "use"
marker_use == <<117,115,101>>
\* "apply"
marker_apply == <<97,112,112,108,121>>
\* "ensure"
marker_ensure == <<101,110,115,117,114,101>>

(***************************************************************************)
(* The corpus, route.ts:17-90, and the quick tips, route.ts:315-359, as    *)
(* sequences of entries in insertion order                                 *)
(***************************************************************************)
guidelines_literal ==
  <<
    \* interactivity
    [key |-> <<105,110,116,101,114,97,99,116,105,118,105,116,121>>, rules |-> <<
      \* "Clicking the input label should focus the input field"
      <<67,108,105,99,107,105,110,103,32,116,104,101,32,105,110,112,117,116,32,108,97,98,101,108,32,115,104,111,117,108,100,32,102,111,99,117,115,32,116,104,101,32,105,110,112,117,116,32,102,105,101,108,100>>,
      \* "Inputs should be wrapped with a <form> to submit by pressing Enter"
      <<73,110,112,117,116,115,32,115,104,111,117,108,100,32,98,101,32,119,114,97,112,112,101,100,32,119,105,116,104,32,97,32,60,102,111,114,109,62,32,116,111,32,115,117,98,109,105,116,32,98,121,32,112,114,101,115,115,105,110,103,32,69,110,116,101,114>>,
      \* "Inputs should have an appropriate type like password, email, etc"
      <<73,110,112,117,116,115,32,115,104,111,117,108,100,32,104,97,118,101,32,97,110,32,97,112,112,114,111,112,114,105,97,116,101,32,116,121,112,101,32,108,105,107,101,32,112,97,115,115,119,111,114,100,44,32,101,109,97,105,108,44,32,101,116,99>>,
      \* "Inputs should disable spellcheck and autocomplete attributes most of the time"
      <<73,110,112,117,116,115,32,115,104,111,117,108,100,32,100,105,115,97,98,108,101,32,115,112,101,108,108,99,104,101,99,107,32,97,110,100,32,97,117,116,111,99,111,109,112,108,101,116,101,32,97,116,116,114,105,98,117,116,101,115,32,109,111,115,116,32,111,102,32,116,104,101,32,116,105,109,101>>,
      \* "Inputs should leverage HTML form validation by using the required attribute when appropriate"
      <<73,110,112,117,116,115,32,115,104,111,117,108,100,32,108,101,118,101,114,97,103,101,32,72,84,77,76,32,102,111,114,109,32,118,97,108,105,100,97,116,105,111,110,32,98,121,32,117,115,105,110,103,32,116,104,101,32,114,101,113,117,105,114,101,100,32,97,116,116,114,105,98,117,116,101,32,119,104,101,110,32,97,112,112,114,111,112,114,105,97,116,101>>,
      \* "Input prefix and suffix decorations should be absolutely positioned on top of the text input with padding, not next to it, and trigger focus on the input"
      <<73,110,112,117,116,32,112,114,101,102,105,120,32,97,110,100,32,115,117,102,102,105,120,32,100,101,99,111,114,97,116,105,111,110,115,32,115,104,111,117,108,100,32,98,101,32,97,98,115,111,108,117,116,101,108,121,32,112,111,115,105,116,105,111,110,101,100,32,111,110,32,116,111,112,32,111,102,32,116,104,101,32,116,101,120,116,32,105,110,112,117,116,32,119,105,116,104,32,112,97,100,100,105,110,103,44,32,110,111,116,32,110,101,120,116,32,116,111,32,105,116,44,32,97,110,100,32,116,114,105,103,103,101,114,32,102,111,99,117,115,32,111,110,32,116,104,101,32,105,110,112,117,116>>,
      \* "Toggles should immediately take effect, not require confirmation"
      <<84,111,103,103,108,101,115,32,115,104,111,117,108,100,32,105,109,109,101,100,105,97,116,101,108,121,32,116,97,107,101,32,101,102,102,101,99,116,44,32,110,111,116,32,114,101,113,117,105,114,101,32,99,111,110,102,105,114,109,97,116,105,111,110>>,
      \* "Buttons should be disabled after submission to avoid duplicate network requests"
      <<66,117,116,116,111,110,115,32,115,104,111,117,108,100,32,98,101,32,100,105,115,97,98,108,101,100,32,97,102,116,101,114,32,115,117,98,109,105,115,115,105,111,110,32,116,111,32,97,118,111,105,100,32,100,117,112,108,105,99,97,116,101,32,110,101,116,119,111,114,107,32,114,101,113,117,101,115,116,115>>,
      \* "Interactive elements should disable user-select for inner content"
      <<73,110,116,101,114,97,99,116,105,118,101,32,101,108,101,109,101,110,116,115,32,115,104,111,117,108,100,32,100,105,115,97,98,108,101,32,117,115,101,114,45,115,101,108,101,99,116,32,102,111,114,32,105,110,110,101,114,32,99,111,110,116,101,110,116>>,
      \* "Decorative elements (glows, gradients) should disable pointer-events to not hijack events"
      <<68,101,99,111,114,97,116,105,118,101,32,101,108,101,109,101,110,116,115,32,40,103,108,111,119,115,44,32,103,114,97,100,105,101,110,116,115,41,32,115,104,111,117,108,100,32,100,105,115,97,98,108,101,32,112,111,105,110,116,101,114,45,101,118,101,110,116,115,32,116,111,32,110,111,116,32,104,105,106,97,99,107,32,101,118,101,110,116,115>>,
      \* "Interactive elements in a vertical or horizontal list should have no dead areas between each element, instead, increase their padding"
      <<73,110,116,101,114,97,99,116,105,118,101,32,101,108,101,109,101,110,116,115,32,105,110,32,97,32,118,101,114,116,105,99,97,108,32,111,114,32,104,111,114,105,122,111,110,116,97,108,32,108,105,115,116,32,115,104,111,117,108,100,32,104,97,118,101,32,110,111,32,100,101,97,100,32,97,114,101,97,115,32,98,101,116,119,101,101,110,32,101,97,99,104,32,101,108,101,109,101,110,116,44,32,105,110,115,116,101,97,100,44,32,105,110,99,114,101,97,115,101,32,116,104,101,105,114,32,112,97,100,100,105,110,103>>
    >>],
    \* typography
    [key |-> <<116,121,112,111,103,114,97,112,104,121>>, rules |-> <<
      \* "Fonts should have -webkit-font-smoothing: antialiased applied for better legibility"
      <<70,111,110,116,115,32,115,104,111,117,108,100,32,104,97,118,101,32,45,119,101,98,107,105,116,45,102,111,110,116,45,115,109,111,111,116,104,105,110,103,58,32,97,110,116,105,97,108,105,97,115,101,100,32,97,112,112,108,105,101,100,32,102,111,114,32,98,101,116,116,101,114,32,108,101,103,105,98,105,108,105,116,121>>,
      \* "Fonts should have text-rendering: optimizeLegibility applied for better legibility"
      <<70,111,110,116,115,32,115,104,111,117,108,100,32,104,97,118,101,32,116,101,120,116,45,114,101,110,100,101,114,105,110,103,58,32,111,112,116,105,109,105,122,101,76,101,103,105,98,105,108,105,116,121,32,97,112,112,108,105,101,100,32,102,111,114,32,98,101,116,116,101,114,32,108,101,103,105,98,105,108,105,116,121>>,
      \* "Fonts should be subset based on the content, alphabet or relevant language(s)"
      <<70,111,110,116,115,32,115,104,111,117,108,100,32,98,101,32,115,117,98,115,101,116,32,98,97,115,101,100,32,111,110,32,116,104,101,32,99,111,110,116,101,110,116,44,32,97,108,112,104,97,98,101,116,32,111,114,32,114,101,108,101,118,97,110,116,32,108,97,110,103,117,97,103,101,40,115,41>>,
      \* "Font weight should not change on hover or selected state to prevent layout shift"
      <<70,111,110,116,32,119,101,105,103,104,116,32,115,104,111,117,108,100,32,110,111,116,32,99,104,97,110,103,101,32,111,110,32,104,111,118,101,114,32,111,114,32,115,101,108,101,99,116,101,100,32,115,116,97,116,101,32,116,111,32,112,114,101,118,101,110,116,32,108,97,121,111,117,116,32,115,104,105,102,116>>,
      \* "Font weights below 400 should not be used"
      <<70,111,110,116,32,119,101,105,103,104,116,115,32,98,101,108,111,119,32,52,48,48,32,115,104,111,117,108,100,32,110,111,116,32,98,101,32,117,115,101,100>>,
      \* "Medium sized headings generally look best with a font weight between 500-600"
      <<77,101,100,105,117,109,32,115,105,122,101,100,32,104,101,97,100,105,110,103,115,32,103,101,110,101,114,97,108,108,121,32,108,111,111,107,32,98,101,115,116,32,119,105,116,104,32,97,32,102,111,110,116,32,119,101,105,103,104,116,32,98,101,116,119,101,101,110,32,53,48,48,45,54,48,48>>,
      \* "Adjust values fluidly by using CSS clamp(), e.g. clamp(48px, 5vw, 72px) for the font-size of a heading"
      <<65,100,106,117,115,116,32,118,97,108,117,101,115,32,102,108,117,105,100,108,121,32,98,121,32,117,115,105,110,103,32,67,83,83,32,99,108,97,109,112,40,41,44,32,101,46,103,46,32,99,108,97,109,112,40,52,56,112,120,44,32,53,118,119,44,32,55,50,112,120,41,32,102,111,114,32,116,104,101,32,102,111,110,116,45,115,105,122,101,32,111,102,32,97,32,104,101,97,100,105,110,103>>,
      \* "Where available, tabular figures should be applied with font-variant-numeric: tabular-nums, particularly in tables or when layout shifts are undesirable, like in timers"
      <<87,104,101,114,101,32,97,118,97,105,108,97,98,108,101,44,32,116,97,98,117,108,97,114,32,102,105,103,117,114,101,115,32,115,104,111,117,108,100,32,98,101,32,97,112,112,108,105,101,100,32,119,105,116,104,32,102,111,110,116,45,118,97,114,105,97,110,116,45,110,117,109,101,114,105,99,58,32,116,97,98,117,108,97,114,45,110,117,109,115,44,32,112,97,114,116,105,99,117,108,97,114,108,121,32,105,110,32,116,97,98,108,101,115,32,111,114,32,119,104,101,110,32,108,97,121,111,117,116,32,115,104,105,102,116,115,32,97,114,101,32,117,110,100,101,115,105,114,97,98,108,101,44,32,108,105,107,101,32,105,110,32,116,105,109,101,114,115>>,
      \* "Prevent text resizing unexpectedly in landscape mode on iOS with -webkit-text-size-adjust: 100%"
      <<80,114,101,118,101,110,116,32,116,101,120,116,32,114,101,115,105,122,105,110,103,32,117,110,101,120,112,101,99,116,101,100,108,121,32,105,110,32,108,97,110,100,115,99,97,112,101,32,109,111,100,101,32,111,110,32,105,79,83,32,119,105,116,104,32,45,119,101,98,107,105,116,45,116,101,120,116,45,115,105,122,101,45,97,100,106,117,115,116,58,32,49,48,48,37>>
    >>],
    \* motion
    [key |-> <<109,111,116,105,111,110>>, rules |-> <<
      \* "Switching themes should not trigger transitions and animations on elements"
      <<83,119,105,116,99,104,105,110,103,32,116,104,101,109,101,115,32,115,104,111,117,108,100,32,110,111,116,32,116,114,105,103,103,101,114,32,116,114,97,110,115,105,116,105,111,110,115,32,97,110,100,32,97,110,105,109,97,116,105,111,110,115,32,111,110,32,101,108,101,109,101,110,116,115>>,
      \* "Animation duration should not be more than 200ms for interactions to feel immediate"
      <<65,110,105,109,97,116,105,111,110,32,100,117,114,97,116,105,111,110,32,115,104,111,117,108,100,32,110,111,116,32,98,101,32,109,111,114,101,32,116,104,97,110,32,50,48,48,109,115,32,102,111,114,32,105,110,116,101,114,97,99,116,105,111,110,115,32,116,111,32,102,101,101,108,32,105,109,109,101,100,105,97,116,101>>,
      \* "Animation values should be proportional to the trigger size: Don't animate dialog scale in from 0 \u2192 1, fade opacity and scale from ~0.8"
      <<65,110,105,109,97,116,105,111,110,32,118,97,108,117,101,115,32,115,104,111,117,108,100,32,98,101,32,112,114,111,112,111,114,116,105,111,110,97,108,32,116,111,32,116,104,101,32,116,114,105,103,103,101,114,32,115,105,122,101,58,32,68,111,110,39,116,32,97,110,105,109,97,116,101,32,100,105,97,108,111,103,32,115,99,97,108,101,32,105,110,32,102,114,111,109,32,48,32,8594,32,49,44,32,102,97,100,101,32,111,112,97,99,105,116,121,32,97,110,100,32,115,99,97,108,101,32,102,114,111,109,32,126,48,46,56>>,
      \* "Don't scale buttons on press from 1 \u2192 0.8, but ~0.96, ~0.9, or so"
      <<68,111,110,39,116,32,115,99,97,108,101,32,98,117,116,116,111,110,115,32,111,110,32,112,114,101,115,115,32,102,114,111,109,32,49,32,8594,32,48,46,56,44,32,98,117,116,32,126,48,46,57,54,44,32,126,48,46,57,44,32,111,114,32,115,111>>,
      \* "Actions that are frequent and low in novelty should avoid extraneous animations: Opening a right click menu, Deleting or adding items from a list, Hovering trivial buttons"
      <<65,99,116,105,111,110,115,32,116,104,97,116,32,97,114,101,32,102,114,101,113,117,101,110,116,32,97,110,100,32,108,111,119,32,105,110,32,110,111,118,101,108,116,121,32,115,104,111,117,108,100,32,97,118,111,105,100,32,101,120,116,114,97,110,101,111,117,115,32,97,110,105,109,97,116,105,111,110,115,58,32,79,112,101,110,105,110,103,32,97,32,114,105,103,104,116,32,99,108,105,99,107,32,109,101,110,117,44,32,68,101,108,101,116,105,110,103,32,111,114,32,97,100,100,105,110,103,32,105,116,101,109,115,32,102,114,111,109,32,97,32,108,105,115,116,44,32,72,111,118,101,114,105,110,103,32,116,114,105,118,105,97,108,32,98,117,116,116,111,110,115>>,
      \* "Looping animations should pause when not visible on the screen to offload CPU and GPU usage"
      <<76,111,111,112,105,110,103,32,97,110,105,109,97,116,105,111,110,115,32,115,104,111,117,108,100,32,112,97,117,115,101,32,119,104,101,110,32,110,111,116,32,118,105,115,105,98,108,101,32,111,110,32,116,104,101,32,115,99,114,101,101,110,32,116,111,32,111,102,102,108,111,97,100,32,67,80,85,32,97,110,100,32,71,80,85,32,117,115,97,103,101>>,
      \* "Use scroll-behavior: smooth for navigating to in-page anchors, with an appropriate offset"
      <<85,115,101,32,115,99,114,111,108,108,45,98,101,104,97,118,105,111,114,58,32,115,109,111,111,116,104,32,102,111,114,32,110,97,118,105,103,97,116,105,110,103,32,116,111,32,105,110,45,112,97,103,101,32,97,110,99,104,111,114,115,44,32,119,105,116,104,32,97,110,32,97,112,112,114,111,112,114,105,97,116,101,32,111,102,102,115,101,116>>
    >>],
    \* touch
    [key |-> <<116,111,117,99,104>>, rules |-> <<
      \* "Hover states should not be visible on touch press, use @media (hover: hover)"
      <<72,111,118,101,114,32,115,116,97,116,101,115,32,115,104,111,117,108,100,32,110,111,116,32,98,101,32,118,105,115,105,98,108,101,32,111,110,32,116,111,117,99,104,32,112,114,101,115,115,44,32,117,115,101,32,64,109,101,100,105,97,32,40,104,111,118,101,114,58,32,104,111,118,101,114,41>>,
      \* "Font size for inputs should not be smaller than 16px to prevent iOS zooming on focus"
      <<70,111,110,116,32,115,105,122,101,32,102,111,114,32,105,110,112,117,116,115,32,115,104,111,117,108,100,32,110,111,116,32,98,101,32,115,109,97,108,108,101,114,32,116,104,97,110,32,49,54,112,120,32,116,111,32,112,114,101,118,101,110,116,32,105,79,83,32,122,111,111,109,105,110,103,32,111,110,32,102,111,99,117,115>>,
      \* "Inputs should not auto focus on touch devices as it will open the keyboard and cover the screen"
      <<73,110,112,117,116,115,32,115,104,111,117,108,100,32,110,111,116,32,97,117,116,111,32,102,111,99,117,115,32,111,110,32,116,111,117,99,104,32,100,101,118,105,99,101,115,32,97,115,32,105,116,32,119,105,108,108,32,111,112,101,110,32,116,104,101,32,107,101,121,98,111,97,114,100,32,97,110,100,32,99,111,118,101,114,32,116,104,101,32,115,99,114,101,101,110>>,
      \* "Apply muted and playsinline to <video /> tags to auto play on iOS"
      <<65,112,112,108,121,32,109,117,116,101,100,32,97,110,100,32,112,108,97,121,115,105,110,108,105,110,101,32,116,111,32,60,118,105,100,101,111,32,47,62,32,116,97,103,115,32,116,111,32,97,117,116,111,32,112,108,97,121,32,111,110,32,105,79,83>>,
      \* "Disable touch-action for custom components that implement pan and zoom gestures to prevent interference from native behavior like zooming and scrolling"
      <<68,105,115,97,98,108,101,32,116,111,117,99,104,45,97,99,116,105,111,110,32,102,111,114,32,99,117,115,116,111,109,32,99,111,109,112,111,110,101,110,116,115,32,116,104,97,116,32,105,109,112,108,101,109,101,110,116,32,112,97,110,32,97,110,100,32,122,111,111,109,32,103,101,115,116,117,114,101,115,32,116,111,32,112,114,101,118,101,110,116,32,105,110,116,101,114,102,101,114,101,110,99,101,32,102,114,111,109,32,110,97,116,105,118,101,32,98,101,104,97,118,105,111,114,32,108,105,107,101,32,122,111,111,109,105,110,103,32,97,110,100,32,115,99,114,111,108,108,105,110,103>>,
      \* "Disable the default iOS tap highlight with -webkit-tap-highlight-color: rgba(0,0,0,0), but always replace it with an appropriate alternative"
      <<68,105,115,97,98,108,101,32,116,104,101,32,100,101,102,97,117,108,116,32,105,79,83,32,116,97,112,32,104,105,103,104,108,105,103,104,116,32,119,105,116,104,32,45,119,101,98,107,105,116,45,116,97,112,45,104,105,103,104,108,105,103,104,116,45,99,111,108,111,114,58,32,114,103,98,97,40,48,44,48,44,48,44,48,41,44,32,98,117,116,32,97,108,119,97,121,115,32,114,101,112,108,97,99,101,32,105,116,32,119,105,116,104,32,97,110,32,97,112,112,114,111,112,114,105,97,116,101,32,97,108,116,101,114,110,97,116,105,118,101>>
    >>],
    \* accessibility
    [key |-> <<97,99,99,101,115,115,105,98,105,108,105,116,121>>, rules |-> <<
      \* "Disabled buttons should not have tooltips, they are not accessible"
      <<68,105,115,97,98,108,101,100,32,98,117,116,116,111,110,115,32,115,104,111,117,108,100,32,110,111,116,32,104,97,118,101,32,116,111,111,108,116,105,112,115,44,32,116,104,101,121,32,97,114,101,32,110,111,116,32,97,99,99,101,115,115,105,98,108,101>>,
      \* "Box shadow should be used for focus rings, not outline which won't respect radius"
      <<66,111,120,32,115,104,97,100,111,119,32,115,104,111,117,108,100,32,98,101,32,117,115,101,100,32,102,111,114,32,102,111,99,117,115,32,114,105,110,103,115,44,32,110,111,116,32,111,117,116,108,105,110,101,32,119,104,105,99,104,32,119,111,110,39,116,32,114,101,115,112,101,99,116,32,114,97,100,105,117,115>>,
      \* "Focusable elements in a sequential list should be navigable with \u2191 \u2193"
      <<70,111,99,117,115,97,98,108,101,32,101,108,101,109,101,110,116,115,32,105,110,32,97,32,115,101,113,117,101,110,116,105,97,108,32,108,105,115,116,32,115,104,111,117,108,100,32,98,101,32,110,97,118,105,103,97,98,108,101,32,119,105,116,104,32,8593,32,8595>>,
      \* "Focusable elements in a sequential list should be deletable with \u2318 Backspace"
      <<70,111,99,117,115,97,98,108,101,32,101,108,101,109,101,110,116,115,32,105,110,32,97,32,115,101,113,117,101,110,116,105,97,108,32,108,105,115,116,32,115,104,111,117,108,100,32,98,101,32,100,101,108,101,116,97,98,108,101,32,119,105,116,104,32,8984,32,66,97,99,107,115,112,97,99,101>>,
      \* "To open immediately on press, dropdown menus should trigger on mousedown, not click"
      <<84,111,32,111,112,101,110,32,105,109,109,101,100,105,97,116,101,108,121,32,111,110,32,112,114,101,115,115,44,32,100,114,111,112,100,111,119,110,32,109,101,110,117,115,32,115,104,111,117,108,100,32,116,114,105,103,103,101,114,32,111,110,32,109,111,117,115,101,100,111,119,110,44,32,110,111,116,32,99,108,105,99,107>>,
      \* "Use a svg favicon with a style tag that adheres to the system theme based on prefers-color-scheme"
      <<85,115,101,32,97,32,115,118,103,32,102,97,118,105,99,111,110,32,119,105,116,104,32,97,32,115,116,121,108,101,32,116,97,103,32,116,104,97,116,32,97,100,104,101,114,101,115,32,116,111,32,116,104,101,32,115,121,115,116,101,109,32,116,104,101,109,101,32,98,97,115,101,100,32,111,110,32,112,114,101,102,101,114,115,45,99,111,108,111,114,45,115,99,104,101,109,101>>,
      \* "Icon only interactive elements should define an explicit aria-label"
      <<73,99,111,110,32,111,110,108,121,32,105,110,116,101,114,97,99,116,105,118,101,32,101,108,101,109,101,110,116,115,32,115,104,111,117,108,100,32,100,101,102,105,110,101,32,97,110,32,101,120,112,108,105,99,105,116,32,97,114,105,97,45,108,97,98,101,108>>,
      \* "Tooltips triggered by hover should not contain interactive content"
      <<84,111,111,108,116,105,112,115,32,116,114,105,103,103,101,114,101,100,32,98,121,32,104,111,118,101,114,32,115,104,111,117,108,100,32,110,111,116,32,99,111,110,116,97,105,110,32,105,110,116,101,114,97,99,116,105,118,101,32,99,111,110,116,101,110,116>>,
      \* "Images should always be rendered with <img> for screen readers and ease of copying from the right click menu"
      <<73,109,97,103,101,115,32,115,104,111,117,108,100,32,97,108,119,97,121,115,32,98,101,32,114,101,110,100,101,114,101,100,32,119,105,116,104,32,60,105,109,103,62,32,102,111,114,32,115,99,114,101,101,110,32,114,101,97,100,101,114,115,32,97,110,100,32,101,97,115,101,32,111,102,32,99,111,112,121,105,110,103,32,102,114,111,109,32,116,104,101,32,114,105,103,104,116,32,99,108,105,99,107,32,109,101,110,117>>,
      \* "Illustrations built with HTML should have an explicit aria-label instead of announcing the raw DOM tree to people using screen readers"
      <<73,108,108,117,115,116,114,97,116,105,111,110,115,32,98,117,105,108,116,32,119,105,116,104,32,72,84,77,76,32,115,104,111,117,108,100,32,104,97,118,101,32,97,110,32,101,120,112,108,105,99,105,116,32,97,114,105,97,45,108,97,98,101,108,32,105,110,115,116,101,97,100,32,111,102,32,97,110,110,111,117,110,99,105,110,103,32,116,104,101,32,114,97,119,32,68,79,77,32,116,114,101,101,32,116,111,32,112,101,111,112,108,101,32,117,115,105,110,103,32,115,99,114,101,101,110,32,114,101,97,100,101,114,115>>,
      \* "Gradient text should unset the gradient on ::selection state"
      <<71,114,97,100,105,101,110,116,32,116,101,120,116,32,115,104,111,117,108,100,32,117,110,115,101,116,32,116,104,101,32,103,114,97,100,105,101,110,116,32,111,110,32,58,58,115,101,108,101,99,116,105,111,110,32,115,116,97,116,101>>,
      \* "When using nested menus, use a prediction cone to prevent the pointer from accidentally closing the menu when moving across other elements"
      <<87,104,101,110,32,117,115,105,110,103,32,110,101,115,116,101,100,32,109,101,110,117,115,44,32,117,115,101,32,97,32,112,114,101,100,105,99,116,105,111,110,32,99,111,110,101,32,116,111,32,112,114,101,118,101,110,116,32,116,104,101,32,112,111,105,110,116,101,114,32,102,114,111,109,32,97,99,99,105,100,101,110,116,97,108,108,121,32,99,108,111,115,105,110,103,32,116,104,101,32,109,101,110,117,32,119,104,101,110,32,109,111,118,105,110,103,32,97,99,114,111,115,115,32,111,116,104,101,114,32,101,108,101,109,101,110,116,115>>
    >>],
    \* optimizations
    [key |-> <<111,112,116,105,109,105,122,97,116,105,111,110,115>>, rules |-> <<
      \* "Large blur() values for filter and backdrop-filter may be slow"
      <<76,97,114,103,101,32,98,108,117,114,40,41,32,118,97,108,117,101,115,32,102,111,114,32,102,105,108,116,101,114,32,97,110,100,32,98,97,99,107,100,114,111,112,45,102,105,108,116,101,114,32,109,97,121,32,98,101,32,115,108,111,119>>,
      \* "Scaling and blurring filled rectangles will cause banding, use radial gradients instead"
      <<83,99,97,108,105,110,103,32,97,110,100,32,98,108,117,114,114,105,110,103,32,102,105,108,108,101,100,32,114,101,99,116,97,110,103,108,101,115,32,119,105,108,108,32,99,97,117,115,101,32,98,97,110,100,105,110,103,44,32,117,115,101,32,114,97,100,105,97,108,32,103,114,97,100,105,101,110,116,115,32,105,110,115,116,101,97,100>>,
      \* "Sparingly enable GPU rendering with transform: translateZ(0) for unperformant animations"
      <<83,112,97,114,105,110,103,108,121,32,101,110,97,98,108,101,32,71,80,85,32,114,101,110,100,101,114,105,110,103,32,119,105,116,104,32,116,114,97,110,115,102,111,114,109,58,32,116,114,97,110,115,108,97,116,101,90,40,48,41,32,102,111,114,32,117,110,112,101,114,102,111,114,109,97,110,116,32,97,110,105,109,97,116,105,111,110,115>>,
      \* "Toggle will-change on unperformant scroll animations for the duration of the animation"
      <<84,111,103,103,108,101,32,119,105,108,108,45,99,104,97,110,103,101,32,111,110,32,117,110,112,101,114,102,111,114,109,97,110,116,32,115,99,114,111,108,108,32,97,110,105,109,97,116,105,111,110,115,32,102,111,114,32,116,104,101,32,100,117,114,97,116,105,111,110,32,111,102,32,116,104,101,32,97,110,105,109,97,116,105,111,110>>,
      \* "Auto-playing too many videos on iOS will choke the device, pause or even unmount off-screen videos"
      <<65,117,116,111,45,112,108,97,121,105,110,103,32,116,111,111,32,109,97,110,121,32,118,105,100,101,111,115,32,111,110,32,105,79,83,32,119,105,108,108,32,99,104,111,107,101,32,116,104,101,32,100,101,118,105,99,101,44,32,112,97,117,115,101,32,111,114,32,101,118,101,110,32,117,110,109,111,117,110,116,32,111,102,102,45,115,99,114,101,101,110,32,118,105,100,101,111,115>>,
      \* "Bypass React's render lifecycle with refs for real-time values that can commit to the DOM directly"
      <<66,121,112,97,115,115,32,82,101,97,99,116,39,115,32,114,101,110,100,101,114,32,108,105,102,101,99,121,99,108,101,32,119,105,116,104,32,114,101,102,115,32,102,111,114,32,114,101,97,108,45,116,105,109,101,32,118,97,108,117,101,115,32,116,104,97,116,32,99,97,110,32,99,111,109,109,105,116,32,116,111,32,116,104,101,32,68,79,77,32,100,105,114,101,99,116,108,121>>,
      \* "Detect and adapt to the hardware and network capabilities of the user's device"
      <<68,101,116,101,99,116,32,97,110,100,32,97,100,97,112,116,32,116,111,32,116,104,101,32,104,97,114,100,119,97,114,101,32,97,110,100,32,110,101,116,119,111,114,107,32,99,97,112,97,98,105,108,105,116,105,101,115,32,111,102,32,116,104,101,32,117,115,101,114,39,115,32,100,101,118,105,99,101>>
    >>],
    \* design
    [key |-> <<100,101,115,105,103,110>>, rules |-> <<
      \* "Optimistically update data locally and roll back on server error with feedback"
      <<79,112,116,105,109,105,115,116,105,99,97,108,108,121,32,117,112,100,97,116,101,32,100,97,116,97,32,108,111,99,97,108,108,121,32,97,110,100,32,114,111,108,108,32,98,97,99,107,32,111,110,32,115,101,114,118,101,114,32,101,114,114,111,114,32,119,105,116,104,32,102,101,101,100,98,97,99,107>>,
      \* "Authentication redirects should happen on the server before the client loads to avoid janky URL changes"
      <<65,117,116,104,101,110,116,105,99,97,116,105,111,110,32,114,101,100,105,114,101,99,116,115,32,115,104,111,117,108,100,32,104,97,112,112,101,110,32,111,110,32,116,104,101,32,115,101,114,118,101,114,32,98,101,102,111,114,101,32,116,104,101,32,99,108,105,101,110,116,32,108,111,97,100,115,32,116,111,32,97,118,111,105,100,32,106,97,110,107,121,32,85,82,76,32,99,104,97,110,103,101,115>>,
      \* "Style the document selection state with ::selection"
      <<83,116,121,108,101,32,116,104,101,32,100,111,99,117,109,101,110,116,32,115,101,108,101,99,116,105,111,110,32,115,116,97,116,101,32,119,105,116,104,32,58,58,115,101,108,101,99,116,105,111,110>>,
      \* "Display feedback relative to its trigger: Show a temporary inline checkmark on a successful copy, not a notification"
      <<68,105,115,112,108,97,121,32,102,101,101,100,98,97,99,107,32,114,101,108,97,116,105,118,101,32,116,111,32,105,116,115,32,116,114,105,103,103,101,114,58,32,83,104,111,119,32,97,32,116,101,109,112,111,114,97,114,121,32,105,110,108,105,110,101,32,99,104,101,99,107,109,97,114,107,32,111,110,32,97,32,115,117,99,99,101,115,115,102,117,108,32,99,111,112,121,44,32,110,111,116,32,97,32,110,111,116,105,102,105,99,97,116,105,111,110>>,
      \* "Highlight the relevant input(s) on form error(s)"
      <<72,105,103,104,108,105,103,104,116,32,116,104,101,32,114,101,108,101,118,97,110,116,32,105,110,112,117,116,40,115,41,32,111,110,32,102,111,114,109,32,101,114,114,111,114,40,115,41>>,
      \* "Empty states should prompt to create a new item, with optional templates"
      <<69,109,112,116,121,32,115,116,97,116,101,115,32,115,104,111,117,108,100,32,112,114,111,109,112,116,32,116,111,32,99,114,101,97,116,101,32,97,32,110,101,119,32,105,116,101,109,44,32,119,105,116,104,32,111,112,116,105,111,110,97,108,32,116,101,109,112,108,97,116,101,115>>
    >>]
  >>

tips ==
  <<
    \* forms
    [key |-> <<102,111,114,109,115>>, rules |-> <<
      \* "Inputs should be wrapped with a <form> to submit by pressing Enter"
      <<73,110,112,117,116,115,32,115,104,111,117,108,100,32,98,101,32,119,114,97,112,112,101,100,32,119,105,116,104,32,97,32,60,102,111,114,109,62,32,116,111,32,115,117,98,109,105,116,32,98,121,32,112,114,101,115,115,105,110,103,32,69,110,116,101,114>>,
      \* "Use appropriate input types like password, email, etc"
      <<85,115,101,32,97,112,112,114,111,112,114,105,97,116,101,32,105,110,112,117,116,32,116,121,112,101,115,32,108,105,107,101,32,112,97,115,115,119,111,114,100,44,32,101,109,97,105,108,44,32,101,116,99>>,
      \* "Font size for inputs should not be smaller than 16px to prevent iOS zooming on focus"
      <<70,111,110,116,32,115,105,122,101,32,102,111,114,32,105,110,112,117,116,115,32,115,104,111,117,108,100,32,110,111,116,32,98,101,32,115,109,97,108,108,101,114,32,116,104,97,110,32,49,54,112,120,32,116,111,32,112,114,101,118,101,110,116,32,105,79,83,32,122,111,111,109,105,110,103,32,111,110,32,102,111,99,117,115>>,
      \* "Clicking the input label should focus the input field"
      <<67,108,105,99,107,105,110,103,32,116,104,101,32,105,110,112,117,116,32,108,97,98,101,108,32,115,104,111,117,108,100,32,102,111,99,117,115,32,116,104,101,32,105,110,112,117,116,32,102,105,101,108,100>>,
      \* "Inputs should disable spellcheck and autocomplete attributes most of the time"
      <<73,110,112,117,116,115,32,115,104,111,117,108,100,32,100,105,115,97,98,108,101,32,115,112,101,108,108,99,104,101,99,107,32,97,110,100,32,97,117,116,111,99,111,109,112,108,101,116,101,32,97,116,116,114,105,98,117,116,101,115,32,109,111,115,116,32,111,102,32,116,104,101,32,116,105,109,101>>,
      \* "Use HTML form validation with the required attribute when appropriate"
      <<85,115,101,32,72,84,77,76,32,102,111,114,109,32,118,97,108,105,100,97,116,105,111,110,32,119,105,116,104,32,116,104,101,32,114,101,113,117,105,114,101,100,32,97,116,116,114,105,98,117,116,101,32,119,104,101,110,32,97,112,112,114,111,112,114,105,97,116,101>>
    >>],
    \* buttons
    [key |-> <<98,117,116,116,111,110,115>>, rules |-> <<
      \* "Buttons should be disabled after submission to avoid duplicate network requests"
      <<66,117,116,116,111,110,115,32,115,104,111,117,108,100,32,98,101,32,100,105,115,97,98,108,101,100,32,97,102,116,101,114,32,115,117,98,109,105,115,115,105,111,110,32,116,111,32,97,118,111,105,100,32,100,117,112,108,105,99,97,116,101,32,110,101,116,119,111,114,107,32,114,101,113,117,101,115,116,115>>,
      \* "Disabled buttons should not have tooltips, they are not accessible"
      <<68,105,115,97,98,108,101,100,32,98,117,116,116,111,110,115,32,115,104,111,117,108,100,32,110,111,116,32,104,97,118,101,32,116,111,111,108,116,105,112,115,44,32,116,104,101,121,32,97,114,101,32,110,111,116,32,97,99,99,101,115,115,105,98,108,101>>,
      \* "Icon only interactive elements should define an explicit aria-label"
      <<73,99,111,110,32,111,110,108,121,32,105,110,116,101,114,97,99,116,105,118,101,32,101,108,101,109,101,110,116,115,32,115,104,111,117,108,100,32,100,101,102,105,110,101,32,97,110,32,101,120,112,108,105,99,105,116,32,97,114,105,97,45,108,97,98,101,108>>,
      \* "Hover states should not be visible on touch press, use @media (hover: hover)"
      <<72,111,118,101,114,32,115,116,97,116,101,115,32,115,104,111,117,108,100,32,110,111,116,32,98,101,32,118,105,115,105,98,108,101,32,111,110,32,116,111,117,99,104,32,112,114,101,115,115,44,32,117,115,101,32,64,109,101,100,105,97,32,40,104,111,118,101,114,58,32,104,111,118,101,114,41>>,
      \* "Don't scale buttons on press from 1 \u2192 0.8, but ~0.96, ~0.9, or so"
      <<68,111,110,39,116,32,115,99,97,108,101,32,98,117,116,116,111,110,115,32,111,110,32,112,114,101,115,115,32,102,114,111,109,32,49,32,8594,32,48,46,56,44,32,98,117,116,32,126,48,46,57,54,44,32,126,48,46,57,44,32,111,114,32,115,111>>
    >>],
    \* animations
    [key |-> <<97,110,105,109,97,116,105,111,110,115>>, rules |-> <<
      \* "Animation duration should not be more than 200ms for interactions to feel immediate"
      <<65,110,105,109,97,116,105,111,110,32,100,117,114,97,116,105,111,110,32,115,104,111,117,108,100,32,110,111,116,32,98,101,32,109,111,114,101,32,116,104,97,110,32,50,48,48,109,115,32,102,111,114,32,105,110,116,101,114,97,99,116,105,111,110,115,32,116,111,32,102,101,101,108,32,105,109,109,101,100,105,97,116,101>>,
      \* "Looping animations should pause when not visible on the screen to offload CPU and GPU usage"
      <<76,111,111,112,105,110,103,32,97,110,105,109,97,116,105,111,110,115,32,115,104,111,117,108,100,32,112,97,117,115,101,32,119,104,101,110,32,110,111,116,32,118,105,115,105,98,108,101,32,111,110,32,116,104,101,32,115,99,114,101,101,110,32,116,111,32,111,102,102,108,111,97,100,32,67,80,85,32,97,110,100,32,71,80,85,32,117,115,97,103,101>>,
      \* "Animation values should be proportional to the trigger size"
      <<65,110,105,109,97,116,105,111,110,32,118,97,108,117,101,115,32,115,104,111,117,108,100,32,98,101,32,112,114,111,112,111,114,116,105,111,110,97,108,32,116,111,32,116,104,101,32,116,114,105,103,103,101,114,32,115,105,122,101>>,
      \* "Switching themes should not trigger transitions and animations on elements"
      <<83,119,105,116,99,104,105,110,103,32,116,104,101,109,101,115,32,115,104,111,117,108,100,32,110,111,116,32,116,114,105,103,103,101,114,32,116,114,97,110,115,105,116,105,111,110,115,32,97,110,100,32,97,110,105,109,97,116,105,111,110,115,32,111,110,32,101,108,101,109,101,110,116,115>>,
      \* "Actions that are frequent and low in novelty should avoid extraneous animations"
      <<65,99,116,105,111,110,115,32,116,104,97,116,32,97,114,101,32,102,114,101,113,117,101,110,116,32,97,110,100,32,108,111,119,32,105,110,32,110,111,118,101,108,116,121,32,115,104,111,117,108,100,32,97,118,111,105,100,32,101,120,116,114,97,110,101,111,117,115,32,97,110,105,109,97,116,105,111,110,115>>
    >>],
    \* mobile
    [key |-> <<109,111,98,105,108,101>>, rules |-> <<
      \* "Hover states should not be visible on touch press, use @media (hover: hover)"
      <<72,111,118,101,114,32,115,116,97,116,101,115,32,115,104,111,117,108,100,32,110,111,116,32,98,101,32,118,105,115,105,98,108,101,32,111,110,32,116,111,117,99,104,32,112,114,101,115,115,44,32,117,115,101,32,64,109,101,100,105,97,32,40,104,111,118,101,114,58,32,104,111,118,101,114,41>>,
      \* "Font size for inputs should not be smaller than 16px to prevent iOS zooming on focus"
      <<70,111,110,116,32,115,105,122,101,32,102,111,114,32,105,110,112,117,116,115,32,115,104,111,117,108,100,32,110,111,116,32,98,101,32,115,109,97,108,108,101,114,32,116,104,97,110,32,49,54,112,120,32,116,111,32,112,114,101,118,101,110,116,32,105,79,83,32,122,111,111,109,105,110,103,32,111,110,32,102,111,99,117,115>>,
      \* "Inputs should not auto focus on touch devices as it will open the keyboard and cover the screen"
      <<73,110,112,117,116,115,32,115,104,111,117,108,100,32,110,111,116,32,97,117,116,111,32,102,111,99,117,115,32,111,110,32,116,111,117,99,104,32,100,101,118,105,99,101,115,32,97,115,32,105,116,32,119,105,108,108,32,111,112,101,110,32,116,104,101,32,107,101,121,98,111,97,114,100,32,97,110,100,32,99,111,118,101,114,32,116,104,101,32,115,99,114,101,101,110>>,
      \* "Apply muted and playsinline to <video /> tags to auto play on iOS"
      <<65,112,112,108,121,32,109,117,116,101,100,32,97,110,100,32,112,108,97,121,115,105,110,108,105,110,101,32,116,111,32,60,118,105,100,101,111,32,47,62,32,116,97,103,115,32,116,111,32,97,117,116,111,32,112,108,97,121,32,111,110,32,105,79,83>>,
      \* "Disable the default iOS tap highlight with -webkit-tap-highlight-color: rgba(0,0,0,0), but always replace it with an appropriate alternative"
      <<68,105,115,97,98,108,101,32,116,104,101,32,100,101,102,97,117,108,116,32,105,79,83,32,116,97,112,32,104,105,103,104,108,105,103,104,116,32,119,105,116,104,32,45,119,101,98,107,105,116,45,116,97,112,45,104,105,103,104,108,105,103,104,116,45,99,111,108,111,114,58,32,114,103,98,97,40,48,44,48,44,48,44,48,41,44,32,98,117,116,32,97,108,119,97,121,115,32,114,101,112,108,97,99,101,32,105,116,32,119,105,116,104,32,97,110,32,97,112,112,114,111,112,114,105,97,116,101,32,97,108,116,101,114,110,97,116,105,118,101>>
    >>],
    \* accessibility
    [key |-> <<97,99,99,101,115,115,105,98,105,108,105,116,121>>, rules |-> <<
      \* "Disabled buttons should not have tooltips, they are not accessible"
      <<68,105,115,97,98,108,101,100,32,98,117,116,116,111,110,115,32,115,104,111,117,108,100,32,110,111,116,32,104,97,118,101,32,116,111,111,108,116,105,112,115,44,32,116,104,101,121,32,97,114,101,32,110,111,116,32,97,99,99,101,115,115,105,98,108,101>>,
      \* "Box shadow should be used for focus rings, not outline which won't respect radius"
      <<66,111,120,32,115,104,97,100,111,119,32,115,104,111,117,108,100,32,98,101,32,117,115,101,100,32,102,111,114,32,102,111,99,117,115,32,114,105,110,103,115,44,32,110,111,116,32,111,117,116,108,105,110,101,32,119,104,105,99,104,32,119,111,110,39,116,32,114,101,115,112,101,99,116,32,114,97,100,105,117,115>>,
      \* "Icon only interactive elements should define an explicit aria-label"
      <<73,99,111,110,32,111,110,108,121,32,105,110,116,101,114,97,99,116,105,118,101,32,101,108,101,109,101,110,116,115,32,115,104,111,117,108,100,32,100,101,102,105,110,101,32,97,110,32,101,120,112,108,105,99,105,116,32,97,114,105,97,45,108,97,98,101,108>>,
      \* "Images should always be rendered with <img> for screen readers and ease of copying from the right click menu"
      <<73,109,97,103,101,115,32,115,104,111,117,108,100,32,97,108,119,97,121,115,32,98,101,32,114,101,110,100,101,114,101,100,32,119,105,116,104,32,60,105,109,103,62,32,102,111,114,32,115,99,114,101,101,110,32,114,101,97,100,101,114,115,32,97,110,100,32,101,97,115,101,32,111,102,32,99,111,112,121,105,110,103,32,102,114,111,109,32,116,104,101,32,114,105,103,104,116,32,99,108,105,99,107,32,109,101,110,117>>,
      \* "Illustrations built with HTML should have an explicit aria-label instead of announcing the raw DOM tree"
      <<73,108,108,117,115,116,114,97,116,105,111,110,115,32,98,117,105,108,116,32,119,105,116,104,32,72,84,77,76,32,115,104,111,117,108,100,32,104,97,118,101,32,97,110,32,101,120,112,108,105,99,105,116,32,97,114,105,97,45,108,97,98,101,108,32,105,110,115,116,101,97,100,32,111,102,32,97,110,110,111,117,110,99,105,110,103,32,116,104,101,32,114,97,119,32,68,79,77,32,116,114,101,101>>
    >>],
    \* optimizations
    [key |-> <<111,112,116,105,109,105,122,97,116,105,111,110,115>>, rules |-> <<
      \* "Large blur() values for filter and backdrop-filter may be slow"
      <<76,97,114,103,101,32,98,108,117,114,40,41,32,118,97,108,117,101,115,32,102,111,114,32,102,105,108,116,101,114,32,97,110,100,32,98,97,99,107,100,114,111,112,45,102,105,108,116,101,114,32,109,97,121,32,98,101,32,115,108,111,119>>,
      \* "Scaling and blurring filled rectangles will cause banding, use radial gradients instead"
      <<83,99,97,108,105,110,103,32,97,110,100,32,98,108,117,114,114,105,110,103,32,102,105,108,108,101,100,32,114,101,99,116,97,110,103,108,101,115,32,119,105,108,108,32,99,97,117,115,101,32,98,97,110,100,105,110,103,44,32,117,115,101,32,114,97,100,105,97,108,32,103,114,97,100,105,101,110,116,115,32,105,110,115,116,101,97,100>>,
      \* "Sparingly enable GPU rendering with transform: translateZ(0) for unperformant animations"
      <<83,112,97,114,105,110,103,108,121,32,101,110,97,98,108,101,32,71,80,85,32,114,101,110,100,101,114,105,110,103,32,119,105,116,104,32,116,114,97,110,115,102,111,114,109,58,32,116,114,97,110,115,108,97,116,101,90,40,48,41,32,102,111,114,32,117,110,112,101,114,102,111,114,109,97,110,116,32,97,110,105,109,97,116,105,111,110,115>>,
      \* "Auto-playing too many videos on iOS will choke the device, pause or even unmount off-screen videos"
      <<65,117,116,111,45,112,108,97,121,105,110,103,32,116,111,111,32,109,97,110,121,32,118,105,100,101,111,115,32,111,110,32,105,79,83,32,119,105,108,108,32,99,104,111,107,101,32,116,104,101,32,100,101,118,105,99,101,44,32,112,97,117,115,101,32,111,114,32,101,118,101,110,32,117,110,109,111,117,110,116,32,111,102,102,45,115,99,114,101,101,110,32,118,105,100,101,111,115>>,
      \* "Detect and adapt to the hardware and network capabilities of the user's device"
      <<68,101,116,101,99,116,32,97,110,100,32,97,100,97,112,116,32,116,111,32,116,104,101,32,104,97,114,100,119,97,114,101,32,97,110,100,32,110,101,116,119,111,114,107,32,99,97,112,97,98,105,108,105,116,105,101,115,32,111,102,32,116,104,101,32,117,115,101,114,39,115,32,100,101,118,105,99,101>>
    >>]
  >>

(***************************************************************************)
(* String primitives                                                       *)
(***************************************************************************)
\* The letters that String.prototype.toLowerCase maps to one other letter, in
\* runs <<first, last, step, shift>> of code points: every step-th code point
\* from first to last is lower-cased by adding shift.
LowerCaseRuns ==
  { <<65,90,1,32>>, <<192,214,1,32>>, <<216,222,1,32>>, <<256,302,2,1>>, <<306,310,2,1>>, <<313,327,2,1>>,
    <<330,374,2,1>>, <<376,376,1,-121>>, <<377,381,2,1>>, <<385,385,1,210>>, <<386,388,2,1>>, <<390,390,1,206>>,
    <<391,391,1,1>>, <<393,394,1,205>>, <<395,395,1,1>>, <<398,398,1,79>>, <<399,399,1,202>>, <<400,400,1,203>>,
    <<401,401,1,1>>, <<403,403,1,205>>, <<404,404,1,207>>, <<406,406,1,211>>, <<407,407,1,209>>, <<408,408,1,1>>,
    <<412,412,1,211>>, <<413,413,1,213>>, <<415,415,1,214>>, <<416,420,2,1>>, <<422,422,1,218>>, <<423,423,1,1>>,
    <<425,425,1,218>>, <<428,428,1,1>>, <<430,430,1,218>>, <<431,431,1,1>>, <<433,434,1,217>>, <<435,437,2,1>>,
    <<439,439,1,219>>, <<440,440,1,1>>, <<444,444,1,1>>, <<452,452,1,2>>, <<453,453,1,1>>, <<455,455,1,2>>,
    <<456,456,1,1>>, <<458,458,1,2>>, <<459,475,2,1>>, <<478,494,2,1>>, <<497,497,1,2>>, <<498,500,2,1>>,
    <<502,502,1,-97>>, <<503,503,1,-56>>, <<504,542,2,1>>, <<544,544,1,-130>>, <<546,562,2,1>>, <<570,570,1,10795>>,
    <<571,571,1,1>>, <<573,573,1,-163>>, <<574,574,1,10792>>, <<577,577,1,1>>, <<579,579,1,-195>>, <<580,580,1,69>>,
    <<581,581,1,71>>, <<582,590,2,1>>, <<880,882,2,1>>, <<886,886,1,1>>, <<895,895,1,116>>, <<902,902,1,38>>,
    <<904,906,1,37>>, <<908,908,1,64>>, <<910,911,1,63>>, <<913,929,1,32>>, <<931,939,1,32>>, <<975,975,1,8>>,
    <<984,1006,2,1>>, <<1012,1012,1,-60>>, <<1015,1015,1,1>>, <<1017,1017,1,-7>>, <<1018,1018,1,1>>, <<1021,1023,1,-130>>,
    <<1024,1039,1,80>>, <<1040,1071,1,32>>, <<1120,1152,2,1>>, <<1162,1214,2,1>>, <<1216,1216,1,15>>, <<1217,1229,2,1>>,
    <<1232,1326,2,1>>, <<1329,1366,1,48>>, <<4256,4293,1,7264>>, <<4295,4295,1,7264>>, <<4301,4301,1,7264>>, <<5024,5103,1,38864>>,
    <<5104,5109,1,8>>, <<7305,7305,1,1>>, <<7312,7354,1,-3008>>, <<7357,7359,1,-3008>>, <<7680,7828,2,1>>, <<7838,7838,1,-7615>>,
    <<7840,7934,2,1>>, <<7944,7951,1,-8>>, <<7960,7965,1,-8>>, <<7976,7983,1,-8>>, <<7992,7999,1,-8>>, <<8008,8013,1,-8>>,
    <<8025,8031,2,-8>>, <<8040,8047,1,-8>>, <<8072,8079,1,-8>>, <<8088,8095,1,-8>>, <<8104,8111,1,-8>>, <<8120,8121,1,-8>>,
    <<8122,8123,1,-74>>, <<8124,8124,1,-9>>, <<8136,8139,1,-86>>, <<8140,8140,1,-9>>, <<8152,8153,1,-8>>, <<8154,8155,1,-100>>,
    <<8168,8169,1,-8>>, <<8170,8171,1,-112>>, <<8172,8172,1,-7>>, <<8184,8185,1,-128>>, <<8186,8187,1,-126>>, <<8188,8188,1,-9>>,
    <<8486,8486,1,-7517>>, <<8490,8490,1,-8383>>, <<8491,8491,1,-8262>>, <<8498,8498,1,28>>, <<8544,8559,1,16>>, <<8579,8579,1,1>>,
    <<9398,9423,1,26>>, <<11264,11311,1,48>>, <<11360,11360,1,1>>, <<11362,11362,1,-10743>>, <<11363,11363,1,-3814>>, <<11364,11364,1,-10727>>,
    <<11367,11371,2,1>>, <<11373,11373,1,-10780>>, <<11374,11374,1,-10749>>, <<11375,11375,1,-10783>>, <<11376,11376,1,-10782>>, <<11378,11378,1,1>>,
    <<11381,11381,1,1>>, <<11390,11391,1,-10815>>, <<11392,11490,2,1>>, <<11499,11501,2,1>>, <<11506,11506,1,1>>, <<42560,42604,2,1>>,
    <<42624,42650,2,1>>, <<42786,42798,2,1>>, <<42802,42862,2,1>>, <<42873,42875,2,1>>, <<42877,42877,1,-35332>>, <<42878,42886,2,1>>,
    <<42891,42891,1,1>>, <<42893,42893,1,-42280>>, <<42896,42898,2,1>>, <<42902,42920,2,1>>, <<42922,42922,1,-42308>>, <<42923,42923,1,-42319>>,
    <<42924,42924,1,-42315>>, <<42925,42925,1,-42305>>, <<42926,42926,1,-42308>>, <<42928,42928,1,-42258>>, <<42929,42929,1,-42282>>, <<42930,42930,1,-42261>>,
    <<42931,42931,1,928>>, <<42932,42946,2,1>>, <<42948,42948,1,-48>>, <<42949,42949,1,-42307>>, <<42950,42950,1,-35384>>, <<42951,42953,2,1>>,
    <<42955,42955,1,-42343>>, <<42956,42970,2,1>>, <<42972,42972,1,-42561>>, <<42997,42997,1,1>>, <<65313,65338,1,32>>, <<66560,66599,1,40>>,
    <<66736,66771,1,40>>, <<66928,66964,2,39>>, <<66929,66937,2,39>>, <<66941,66953,2,39>>, <<66957,66961,2,39>>, <<66965,66965,1,39>>,
    <<68736,68786,1,64>>, <<68944,68965,1,32>>, <<71840,71871,1,32>>, <<93760,93791,1,32>>, <<93856,93880,1,27>>, <<125184,125217,1,34>> }

\* The same for String.prototype.toUpperCase.
UpperCaseRuns ==
  { <<97,122,1,-32>>, <<181,181,1,743>>, <<224,246,1,-32>>, <<248,254,1,-32>>, <<255,255,1,121>>, <<257,303,2,-1>>,
    <<305,305,1,-232>>, <<307,311,2,-1>>, <<314,328,2,-1>>, <<331,375,2,-1>>, <<378,382,2,-1>>, <<383,383,1,-300>>,
    <<384,384,1,195>>, <<387,389,2,-1>>, <<392,392,1,-1>>, <<396,396,1,-1>>, <<402,402,1,-1>>, <<405,405,1,97>>,
    <<409,409,1,-1>>, <<410,410,1,163>>, <<411,411,1,42561>>, <<414,414,1,130>>, <<417,421,2,-1>>, <<424,424,1,-1>>,
    <<429,429,1,-1>>, <<432,432,1,-1>>, <<436,438,2,-1>>, <<441,441,1,-1>>, <<445,445,1,-1>>, <<447,447,1,56>>,
    <<453,453,1,-1>>, <<454,454,1,-2>>, <<456,456,1,-1>>, <<457,457,1,-2>>, <<459,459,1,-1>>, <<460,460,1,-2>>,
    <<462,476,2,-1>>, <<477,477,1,-79>>, <<479,495,2,-1>>, <<498,498,1,-1>>, <<499,499,1,-2>>, <<501,501,1,-1>>,
    <<505,543,2,-1>>, <<547,563,2,-1>>, <<572,572,1,-1>>, <<575,576,1,10815>>, <<578,578,1,-1>>, <<583,591,2,-1>>,
    <<592,592,1,10783>>, <<593,593,1,10780>>, <<594,594,1,10782>>, <<595,595,1,-210>>, <<596,596,1,-206>>, <<598,599,1,-205>>,
    <<601,601,1,-202>>, <<603,603,1,-203>>, <<604,604,1,42319>>, <<608,608,1,-205>>, <<609,609,1,42315>>, <<611,611,1,-207>>,
    <<612,612,1,42343>>, <<613,613,1,42280>>, <<614,614,1,42308>>, <<616,616,1,-209>>, <<617,617,1,-211>>, <<618,618,1,42308>>,
    <<619,619,1,10743>>, <<620,620,1,42305>>, <<623,623,1,-211>>, <<625,625,1,10749>>, <<626,626,1,-213>>, <<629,629,1,-214>>,
    <<637,637,1,10727>>, <<640,640,1,-218>>, <<642,642,1,42307>>, <<643,643,1,-218>>, <<647,647,1,42282>>, <<648,648,1,-218>>,
    <<649,649,1,-69>>, <<650,651,1,-217>>, <<652,652,1,-71>>, <<658,658,1,-219>>, <<669,669,1,42261>>, <<670,670,1,42258>>,
    <<837,837,1,84>>, <<881,883,2,-1>>, <<887,887,1,-1>>, <<891,893,1,130>>, <<940,940,1,-38>>, <<941,943,1,-37>>,
    <<945,961,1,-32>>, <<962,962,1,-31>>, <<963,971,1,-32>>, <<972,972,1,-64>>, <<973,974,1,-63>>, <<976,976,1,-62>>,
    <<977,977,1,-57>>, <<981,981,1,-47>>, <<982,982,1,-54>>, <<983,983,1,-8>>, <<985,1007,2,-1>>, <<1008,1008,1,-86>>,
    <<1009,1009,1,-80>>, <<1010,1010,1,7>>, <<1011,1011,1,-116>>, <<1013,1013,1,-96>>, <<1016,1016,1,-1>>, <<1019,1019,1,-1>>,
    <<1072,1103,1,-32>>, <<1104,1119,1,-80>>, <<1121,1153,2,-1>>, <<1163,1215,2,-1>>, <<1218,1230,2,-1>>, <<1231,1231,1,-15>>,
    <<1233,1327,2,-1>>, <<1377,1414,1,-48>>, <<4304,4346,1,3008>>, <<4349,4351,1,3008>>, <<5112,5117,1,-8>>, <<7296,7296,1,-6254>>,
    <<7297,7297,1,-6253>>, <<7298,7298,1,-6244>>, <<7299,7300,1,-6242>>, <<7301,7301,1,-6243>>, <<7302,7302,1,-6236>>, <<7303,7303,1,-6181>>,
    <<7304,7304,1,35266>>, <<7306,7306,1,-1>>, <<7545,7545,1,35332>>, <<7549,7549,1,3814>>, <<7566,7566,1,35384>>, <<7681,7829,2,-1>>,
    <<7835,7835,1,-59>>, <<7841,7935,2,-1>>, <<7936,7943,1,8>>, <<7952,7957,1,8>>, <<7968,7975,1,8>>, <<7984,7991,1,8>>,
    <<8000,8005,1,8>>, <<8017,8023,2,8>>, <<8032,8039,1,8>>, <<8048,8049,1,74>>, <<8050,8053,1,86>>, <<8054,8055,1,100>>,
    <<8056,8057,1,128>>, <<8058,8059,1,112>>, <<8060,8061,1,126>>, <<8112,8113,1,8>>, <<8126,8126,1,-7205>>, <<8144,8145,1,8>>,
    <<8160,8161,1,8>>, <<8165,8165,1,7>>, <<8526,8526,1,-28>>, <<8560,8575,1,-16>>, <<8580,8580,1,-1>>, <<9424,9449,1,-26>>,
    <<11312,11359,1,-48>>, <<11361,11361,1,-1>>, <<11365,11365,1,-10795>>, <<11366,11366,1,-10792>>, <<11368,11372,2,-1>>, <<11379,11379,1,-1>>,
    <<11382,11382,1,-1>>, <<11393,11491,2,-1>>, <<11500,11502,2,-1>>, <<11507,11507,1,-1>>, <<11520,11557,1,-7264>>, <<11559,11559,1,-7264>>,
    <<11565,11565,1,-7264>>, <<42561,42605,2,-1>>, <<42625,42651,2,-1>>, <<42787,42799,2,-1>>, <<42803,42863,2,-1>>, <<42874,42876,2,-1>>,
    <<42879,42887,2,-1>>, <<42892,42892,1,-1>>, <<42897,42899,2,-1>>, <<42900,42900,1,48>>, <<42903,42921,2,-1>>, <<42933,42947,2,-1>>,
    <<42952,42954,2,-1>>, <<42957,42971,2,-1>>, <<42998,42998,1,-1>>, <<43859,43859,1,-928>>, <<43888,43967,1,-38864>>, <<65345,65370,1,-32>>,
    <<66600,66639,1,-40>>, <<66776,66811,1,-40>>, <<66967,67003,2,-39>>, <<66968,66976,2,-39>>, <<66980,66992,2,-39>>, <<66996,67000,2,-39>>,
    <<67004,67004,1,-39>>, <<68800,68850,1,-64>>, <<68976,68997,1,-32>>, <<71872,71903,1,-32>>, <<93792,93823,1,-32>>, <<93883,93907,1,-27>>,
    <<125218,125251,1,-34>> }

\* The letters that toUpperCase maps to more than one letter, as
\* <<code point, upper-cased code points>>.
UpperCaseSpecial ==
  { <<223, <<83,83>>>>, <<329, <<700,78>>>>, <<496, <<74,780>>>>, <<912, <<921,776,769>>>>,
    <<944, <<933,776,769>>>>, <<1415, <<1333,1362>>>>, <<7830, <<72,817>>>>, <<7831, <<84,776>>>>,
    <<7832, <<87,778>>>>, <<7833, <<89,778>>>>, <<7834, <<65,702>>>>, <<8016, <<933,787>>>>,
    <<8018, <<933,787,768>>>>, <<8020, <<933,787,769>>>>, <<8022, <<933,787,834>>>>, <<8064, <<7944,921>>>>,
    <<8065, <<7945,921>>>>, <<8066, <<7946,921>>>>, <<8067, <<7947,921>>>>, <<8068, <<7948,921>>>>,
    <<8069, <<7949,921>>>>, <<8070, <<7950,921>>>>, <<8071, <<7951,921>>>>, <<8072, <<7944,921>>>>,
    <<8073, <<7945,921>>>>, <<8074, <<7946,921>>>>, <<8075, <<7947,921>>>>, <<8076, <<7948,921>>>>,
    <<8077, <<7949,921>>>>, <<8078, <<7950,921>>>>, <<8079, <<7951,921>>>>, <<8080, <<7976,921>>>>,
    <<8081, <<7977,921>>>>, <<8082, <<7978,921>>>>, <<8083, <<7979,921>>>>, <<8084, <<7980,921>>>>,
    <<8085, <<7981,921>>>>, <<8086, <<7982,921>>>>, <<8087, <<7983,921>>>>, <<8088, <<7976,921>>>>,
    <<8089, <<7977,921>>>>, <<8090, <<7978,921>>>>, <<8091, <<7979,921>>>>, <<8092, <<7980,921>>>>,
    <<8093, <<7981,921>>>>, <<8094, <<7982,921>>>>, <<8095, <<7983,921>>>>, <<8096, <<8040,921>>>>,
    <<8097, <<8041,921>>>>, <<8098, <<8042,921>>>>, <<8099, <<8043,921>>>>, <<8100, <<8044,921>>>>,
    <<8101, <<8045,921>>>>, <<8102, <<8046,921>>>>, <<8103, <<8047,921>>>>, <<8104, <<8040,921>>>>,
    <<8105, <<8041,921>>>>, <<8106, <<8042,921>>>>, <<8107, <<8043,921>>>>, <<8108, <<8044,921>>>>,
    <<8109, <<8045,921>>>>, <<8110, <<8046,921>>>>, <<8111, <<8047,921>>>>, <<8114, <<8122,921>>>>,
    <<8115, <<913,921>>>>, <<8116, <<902,921>>>>, <<8118, <<913,834>>>>, <<8119, <<913,834,921>>>>,
    <<8124, <<913,921>>>>, <<8130, <<8138,921>>>>, <<8131, <<919,921>>>>, <<8132, <<905,921>>>>,
    <<8134, <<919,834>>>>, <<8135, <<919,834,921>>>>, <<8140, <<919,921>>>>, <<8146, <<921,776,768>>>>,
    <<8147, <<921,776,769>>>>, <<8150, <<921,834>>>>, <<8151, <<921,776,834>>>>, <<8162, <<933,776,768>>>>,
    <<8163, <<933,776,769>>>>, <<8164, <<929,787>>>>, <<8166, <<933,834>>>>, <<8167, <<933,776,834>>>>,
    <<8178, <<8186,921>>>>, <<8179, <<937,921>>>>, <<8180, <<911,921>>>>, <<8182, <<937,834>>>>,
    <<8183, <<937,834,921>>>>, <<8188, <<937,921>>>>, <<64256, <<70,70>>>>, <<64257, <<70,73>>>>,
    <<64258, <<70,76>>>>, <<64259, <<70,70,73>>>>, <<64260, <<70,70,76>>>>, <<64261, <<83,84>>>>,
    <<64262, <<83,84>>>>, <<64275, <<1348,1350>>>>, <<64276, <<1348,1333>>>>, <<64277, <<1348,1339>>>>,
    <<64278, <<1358,1350>>>>, <<64279, <<1348,1341>>>> }

\* The characters with the Cased property that are not Case_Ignorable, in
\* ranges <<first, last>> of code points, as of Unicode 17 (the data of the ICU
\* library in current Node.js releases; a runtime with older data differs on
\* the characters that were added or reclassified since, U+0295 for one).
CasedRanges ==
  { <<65,90>>, <<97,122>>, <<170,170>>, <<181,181>>, <<186,186>>, <<192,214>>, <<216,246>>, <<248,442>>,
    <<444,447>>, <<452,659>>, <<662,687>>, <<880,883>>, <<886,887>>, <<891,893>>, <<895,895>>, <<902,902>>,
    <<904,906>>, <<908,908>>, <<910,929>>, <<931,1013>>, <<1015,1153>>, <<1162,1327>>, <<1329,1366>>, <<1376,1416>>,
    <<4256,4293>>, <<4295,4295>>, <<4301,4301>>, <<4304,4346>>, <<4349,4351>>, <<5024,5109>>, <<5112,5117>>, <<7296,7306>>,
    <<7312,7354>>, <<7357,7359>>, <<7424,7467>>, <<7531,7543>>, <<7545,7578>>, <<7680,7957>>, <<7960,7965>>, <<7968,8005>>,
    <<8008,8013>>, <<8016,8023>>, <<8025,8025>>, <<8027,8027>>, <<8029,8029>>, <<8031,8061>>, <<8064,8116>>, <<8118,8124>>,
    <<8126,8126>>, <<8130,8132>>, <<8134,8140>>, <<8144,8147>>, <<8150,8155>>, <<8160,8172>>, <<8178,8180>>, <<8182,8188>>,
    <<8450,8450>>, <<8455,8455>>, <<8458,8467>>, <<8469,8469>>, <<8473,8477>>, <<8484,8484>>, <<8486,8486>>, <<8488,8488>>,
    <<8490,8493>>, <<8495,8500>>, <<8505,8505>>, <<8508,8511>>, <<8517,8521>>, <<8526,8526>>, <<8544,8575>>, <<8579,8580>>,
    <<9398,9449>>, <<11264,11387>>, <<11390,11492>>, <<11499,11502>>, <<11506,11507>>, <<11520,11557>>, <<11559,11559>>, <<11565,11565>>,
    <<42560,42605>>, <<42624,42651>>, <<42786,42863>>, <<42865,42887>>, <<42891,42894>>, <<42896,42972>>, <<42997,42998>>, <<43002,43002>>,
    <<43824,43866>>, <<43872,43880>>, <<43888,43967>>, <<64256,64262>>, <<64275,64279>>, <<65313,65338>>, <<65345,65370>>, <<66560,66639>>,
    <<66736,66771>>, <<66776,66811>>, <<66928,66938>>, <<66940,66954>>, <<66956,66962>>, <<66964,66965>>, <<66967,66977>>, <<66979,66993>>,
    <<66995,67001>>, <<67003,67004>>, <<68736,68786>>, <<68800,68850>>, <<68944,68965>>, <<68976,68997>>, <<71840,71903>>, <<93760,93823>>,
    <<93856,93880>>, <<93883,93907>>, <<119808,119892>>, <<119894,119964>>, <<119966,119967>>, <<119970,119970>>, <<119973,119974>>, <<119977,119980>>,
    <<119982,119993>>, <<119995,119995>>, <<119997,120003>>, <<120005,120069>>, <<120071,120074>>, <<120077,120084>>, <<120086,120092>>, <<120094,120121>>,
    <<120123,120126>>, <<120128,120132>>, <<120134,120134>>, <<120138,120144>>, <<120146,120485>>, <<120488,120512>>, <<120514,120538>>, <<120540,120570>>,
    <<120572,120596>>, <<120598,120628>>, <<120630,120654>>, <<120656,120686>>, <<120688,120712>>, <<120714,120744>>, <<120746,120770>>, <<120772,120779>>,
    <<122624,122633>>, <<122635,122654>>, <<122661,122666>>, <<125184,125251>>, <<127280,127305>>, <<127312,127337>>, <<127344,127369>> }

\* The characters with the Case_Ignorable property, in ranges <<first, last>>
\* of code points, as of Unicode 17.
CaseIgnorableRanges ==
  { <<39,39>>, <<46,46>>, <<58,58>>, <<94,94>>, <<96,96>>, <<168,168>>, <<173,173>>, <<175,175>>,
    <<180,180>>, <<183,184>>, <<688,879>>, <<884,885>>, <<890,890>>, <<900,901>>, <<903,903>>, <<1155,1161>>,
    <<1369,1369>>, <<1375,1375>>, <<1425,1469>>, <<1471,1471>>, <<1473,1474>>, <<1476,1477>>, <<1479,1479>>, <<1524,1524>>,
    <<1536,1541>>, <<1552,1562>>, <<1564,1564>>, <<1600,1600>>, <<1611,1631>>, <<1648,1648>>, <<1750,1757>>, <<1759,1768>>,
    <<1770,1773>>, <<1807,1807>>, <<1809,1809>>, <<1840,1866>>, <<1958,1968>>, <<2027,2037>>, <<2042,2042>>, <<2045,2045>>,
    <<2070,2093>>, <<2137,2139>>, <<2184,2184>>, <<2192,2193>>, <<2199,2207>>, <<2249,2306>>, <<2362,2362>>, <<2364,2364>>,
    <<2369,2376>>, <<2381,2381>>, <<2385,2391>>, <<2402,2403>>, <<2417,2417>>, <<2433,2433>>, <<2492,2492>>, <<2497,2500>>,
    <<2509,2509>>, <<2530,2531>>, <<2558,2558>>, <<2561,2562>>, <<2620,2620>>, <<2625,2626>>, <<2631,2632>>, <<2635,2637>>,
    <<2641,2641>>, <<2672,2673>>, <<2677,2677>>, <<2689,2690>>, <<2748,2748>>, <<2753,2757>>, <<2759,2760>>, <<2765,2765>>,
    <<2786,2787>>, <<2810,2815>>, <<2817,2817>>, <<2876,2876>>, <<2879,2879>>, <<2881,2884>>, <<2893,2893>>, <<2901,2902>>,
    <<2914,2915>>, <<2946,2946>>, <<3008,3008>>, <<3021,3021>>, <<3072,3072>>, <<3076,3076>>, <<3132,3132>>, <<3134,3136>>,
    <<3142,3144>>, <<3146,3149>>, <<3157,3158>>, <<3170,3171>>, <<3201,3201>>, <<3260,3260>>, <<3263,3263>>, <<3270,3270>>,
    <<3276,3277>>, <<3298,3299>>, <<3328,3329>>, <<3387,3388>>, <<3393,3396>>, <<3405,3405>>, <<3426,3427>>, <<3457,3457>>,
    <<3530,3530>>, <<3538,3540>>, <<3542,3542>>, <<3633,3633>>, <<3636,3642>>, <<3654,3662>>, <<3761,3761>>, <<3764,3772>>,
    <<3782,3782>>, <<3784,3790>>, <<3864,3865>>, <<3893,3893>>, <<3895,3895>>, <<3897,3897>>, <<3953,3966>>, <<3968,3972>>,
    <<3974,3975>>, <<3981,3991>>, <<3993,4028>>, <<4038,4038>>, <<4141,4144>>, <<4146,4151>>, <<4153,4154>>, <<4157,4158>>,
    <<4184,4185>>, <<4190,4192>>, <<4209,4212>>, <<4226,4226>>, <<4229,4230>>, <<4237,4237>>, <<4253,4253>>, <<4348,4348>>,
    <<4957,4959>>, <<5906,5908>>, <<5938,5939>>, <<5970,5971>>, <<6002,6003>>, <<6068,6069>>, <<6071,6077>>, <<6086,6086>>,
    <<6089,6099>>, <<6103,6103>>, <<6109,6109>>, <<6155,6159>>, <<6211,6211>>, <<6277,6278>>, <<6313,6313>>, <<6432,6434>>,
    <<6439,6440>>, <<6450,6450>>, <<6457,6459>>, <<6679,6680>>, <<6683,6683>>, <<6742,6742>>, <<6744,6750>>, <<6752,6752>>,
    <<6754,6754>>, <<6757,6764>>, <<6771,6780>>, <<6783,6783>>, <<6823,6823>>, <<6832,6877>>, <<6880,6891>>, <<6912,6915>>,
    <<6964,6964>>, <<6966,6970>>, <<6972,6972>>, <<6978,6978>>, <<7019,7027>>, <<7040,7041>>, <<7074,7077>>, <<7080,7081>>,
    <<7083,7085>>, <<7142,7142>>, <<7144,7145>>, <<7149,7149>>, <<7151,7153>>, <<7212,7219>>, <<7222,7223>>, <<7288,7293>>,
    <<7376,7378>>, <<7380,7392>>, <<7394,7400>>, <<7405,7405>>, <<7412,7412>>, <<7416,7417>>, <<7468,7530>>, <<7544,7544>>,
    <<7579,7679>>, <<8125,8125>>, <<8127,8129>>, <<8141,8143>>, <<8157,8159>>, <<8173,8175>>, <<8189,8190>>, <<8203,8207>>,
    <<8216,8217>>, <<8228,8228>>, <<8231,8231>>, <<8234,8238>>, <<8288,8292>>, <<8294,8303>>, <<8305,8305>>, <<8319,8319>>,
    <<8336,8348>>, <<8400,8432>>, <<11388,11389>>, <<11503,11505>>, <<11631,11631>>, <<11647,11647>>, <<11744,11775>>, <<11823,11823>>,
    <<12293,12293>>, <<12330,12333>>, <<12337,12341>>, <<12347,12347>>, <<12441,12446>>, <<12540,12542>>, <<40981,40981>>, <<42232,42237>>,
    <<42508,42508>>, <<42607,42610>>, <<42612,42621>>, <<42623,42623>>, <<42652,42655>>, <<42736,42737>>, <<42752,42785>>, <<42864,42864>>,
    <<42888,42890>>, <<42993,42996>>, <<43000,43001>>, <<43010,43010>>, <<43014,43014>>, <<43019,43019>>, <<43045,43046>>, <<43052,43052>>,
    <<43204,43205>>, <<43232,43249>>, <<43263,43263>>, <<43302,43309>>, <<43335,43345>>, <<43392,43394>>, <<43443,43443>>, <<43446,43449>>,
    <<43452,43453>>, <<43471,43471>>, <<43493,43494>>, <<43561,43566>>, <<43569,43570>>, <<43573,43574>>, <<43587,43587>>, <<43596,43596>>,
    <<43632,43632>>, <<43644,43644>>, <<43696,43696>>, <<43698,43700>>, <<43703,43704>>, <<43710,43711>>, <<43713,43713>>, <<43741,43741>>,
    <<43756,43757>>, <<43763,43764>>, <<43766,43766>>, <<43867,43871>>, <<43881,43883>>, <<44005,44005>>, <<44008,44008>>, <<44013,44013>>,
    <<64286,64286>>, <<64434,64450>>, <<65024,65039>>, <<65043,65043>>, <<65056,65071>>, <<65106,65106>>, <<65109,65109>>, <<65279,65279>>,
    <<65287,65287>>, <<65294,65294>>, <<65306,65306>>, <<65342,65342>>, <<65344,65344>>, <<65392,65392>>, <<65438,65439>>, <<65507,65507>>,
    <<65529,65531>>, <<66045,66045>>, <<66272,66272>>, <<66422,66426>>, <<67456,67461>>, <<67463,67504>>, <<67506,67514>>, <<68097,68099>>,
    <<68101,68102>>, <<68108,68111>>, <<68152,68154>>, <<68159,68159>>, <<68325,68326>>, <<68900,68903>>, <<68942,68942>>, <<68969,68973>>,
    <<68975,68975>>, <<69291,69292>>, <<69317,69317>>, <<69370,69375>>, <<69446,69456>>, <<69506,69509>>, <<69633,69633>>, <<69688,69702>>,
    <<69744,69744>>, <<69747,69748>>, <<69759,69761>>, <<69811,69814>>, <<69817,69818>>, <<69821,69821>>, <<69826,69826>>, <<69837,69837>>,
    <<69888,69890>>, <<69927,69931>>, <<69933,69940>>, <<70003,70003>>, <<70016,70017>>, <<70070,70078>>, <<70089,70092>>, <<70095,70095>>,
    <<70191,70193>>, <<70196,70196>>, <<70198,70199>>, <<70206,70206>>, <<70209,70209>>, <<70367,70367>>, <<70371,70378>>, <<70400,70401>>,
    <<70459,70460>>, <<70464,70464>>, <<70502,70508>>, <<70512,70516>>, <<70587,70592>>, <<70606,70606>>, <<70608,70608>>, <<70610,70610>>,
    <<70625,70626>>, <<70712,70719>>, <<70722,70724>>, <<70726,70726>>, <<70750,70750>>, <<70835,70840>>, <<70842,70842>>, <<70847,70848>>,
    <<70850,70851>>, <<71090,71093>>, <<71100,71101>>, <<71103,71104>>, <<71132,71133>>, <<71219,71226>>, <<71229,71229>>, <<71231,71232>>,
    <<71339,71339>>, <<71341,71341>>, <<71344,71349>>, <<71351,71351>>, <<71453,71453>>, <<71455,71455>>, <<71458,71461>>, <<71463,71467>>,
    <<71727,71735>>, <<71737,71738>>, <<71995,71996>>, <<71998,71998>>, <<72003,72003>>, <<72148,72151>>, <<72154,72155>>, <<72160,72160>>,
    <<72193,72202>>, <<72243,72248>>, <<72251,72254>>, <<72263,72263>>, <<72273,72278>>, <<72281,72283>>, <<72330,72342>>, <<72344,72345>>,
    <<72544,72544>>, <<72546,72548>>, <<72550,72550>>, <<72752,72758>>, <<72760,72765>>, <<72767,72767>>, <<72850,72871>>, <<72874,72880>>,
    <<72882,72883>>, <<72885,72886>>, <<73009,73014>>, <<73018,73018>>, <<73020,73021>>, <<73023,73029>>, <<73031,73031>>, <<73104,73105>>,
    <<73109,73109>>, <<73111,73111>>, <<73177,73177>>, <<73459,73460>>, <<73472,73473>>, <<73526,73530>>, <<73536,73536>>, <<73538,73538>>,
    <<73562,73562>>, <<78896,78912>>, <<78919,78933>>, <<90398,90409>>, <<90413,90415>>, <<92912,92916>>, <<92976,92982>>, <<92992,92995>>,
    <<93504,93506>>, <<93547,93548>>, <<94031,94031>>, <<94095,94111>>, <<94176,94177>>, <<94179,94180>>, <<94194,94195>>, <<110576,110579>>,
    <<110581,110587>>, <<110589,110590>>, <<113821,113822>>, <<113824,113827>>, <<118528,118573>>, <<118576,118598>>, <<119143,119145>>, <<119155,119170>>,
    <<119173,119179>>, <<119210,119213>>, <<119362,119364>>, <<121344,121398>>, <<121403,121452>>, <<121461,121461>>, <<121476,121476>>, <<121499,121503>>,
    <<121505,121519>>, <<122880,122886>>, <<122888,122904>>, <<122907,122913>>, <<122915,122916>>, <<122918,122922>>, <<122928,122989>>, <<123023,123023>>,
    <<123184,123197>>, <<123566,123566>>, <<123628,123631>>, <<124139,124143>>, <<124398,124399>>, <<124643,124643>>, <<124646,124646>>, <<124654,124655>>,
    <<124661,124661>>, <<124671,124671>>, <<125136,125142>>, <<125252,125259>>, <<127995,127999>>, <<917505,917505>>, <<917536,917631>>, <<917760,917999>> }

\* Whether code point c lies in one of the ranges.
inRanges(c, ranges) == \E r \in ranges : c >= r[1] /\ c <= r[2]

\* c shifted by the run it belongs to; c itself if it belongs to none.
shifted(c, runs) ==
  LET hit == {r \in runs : c >= r[1] /\ c <= r[2] /\ (c - r[1]) % r[3] = 0}
  IN  IF hit = {} THEN c ELSE c + (CHOOSE r \in hit : TRUE)[4]

isHighSurrogate(c) == c >= 55296 /\ c <= 56319

isLowSurrogate(c) == c >= 56320 /\ c <= 57343

\* The code points of a string: a high surrogate followed by a low one is one
\* code point, any other code unit stands for itself.
codePoints(s) ==
  LET trails(i) == i > 1 /\ isLowSurrogate(s[i]) /\ isHighSurrogate(s[i - 1])
      leads(i) == i < Len(s) /\ isHighSurrogate(s[i]) /\ isLowSurrogate(s[i + 1])
      starts == SelectSeq([i \in 1..Len(s) |-> i], LAMBDA i : ~trails(i))
  IN  [k \in 1..Len(starts) |->
         IF leads(starts[k])
         THEN 65536 + (s[starts[k]] - 55296) * 1024 + (s[starts[k] + 1] - 56320)
         ELSE s[starts[k]]]

\* The code units of one code point.
codeUnits(cp) ==
  IF cp < 65536 THEN <<cp>>
  ELSE <<55296 + ((cp - 65536) \div 1024), 56320 + ((cp - 65536) % 1024)>>

\* The parts put one after the other.
RECURSIVE concat(_)
concat(parts) ==
  IF Len(parts) = 0 THEN <<>>
  ELSE IF Len(parts) = 1 THEN parts[1]
  ELSE concat(SubSeq(parts, 1, Len(parts) \div 2))
       \o concat(SubSeq(parts, Len(parts) \div 2 + 1, Len(parts)))

\* The Final_Sigma condition on the capital sigma at position i: going back over
\* case-ignorable characters there is a cased letter, and going forward over
\* case-ignorable characters there is none.
isFinalSigma(cps, i) ==
  LET before == {j \in 1..(i - 1) : ~inRanges(cps[j], CaseIgnorableRanges)}
      after == {j \in (i + 1)..Len(cps) : ~inRanges(cps[j], CaseIgnorableRanges)}
      last == CHOOSE j \in before : \A k \in before : j >= k
      next == CHOOSE j \in after : \A k \in after : j <= k
  IN  /\ before # {}
      /\ inRanges(cps[last], CasedRanges)
      /\ ~(after # {} /\ inRanges(cps[next], CasedRanges))

\* The code units toLowerCase writes for the code point at position i.
lowerCasePoint(cps, i) ==
  LET c == cps[i]
  IN  IF c < 128 THEN (IF c >= 65 /\ c <= 90 THEN <<c + 32>> ELSE <<c>>)
      ELSE IF c = 304 THEN <<105, 775>>
      ELSE IF c = 931 THEN (IF isFinalSigma(cps, i) THEN <<962>> ELSE <<963>>)
      ELSE codeUnits(shifted(c, LowerCaseRuns))

\* String.fromCharCode(c).toLowerCase(): the code units a string of the one
\* code unit c lower-cases to.
toLowerCaseUnit(c) == lowerCasePoint(<<c>>, 1)

\* String.prototype.toLowerCase
toLowerCase(s) ==
  IF \A i \in 1..Len(s) : s[i] < 128
  THEN [i \in 1..Len(s) |-> IF s[i] >= 65 /\ s[i] <= 90 THEN s[i] + 32 ELSE s[i]]
  ELSE LET cps == IF \E i \in 1..Len(s) : isHighSurrogate(s[i])
                  THEN codePoints(s) ELSE s
       IN  concat([i \in 1..Len(cps) |-> lowerCasePoint(cps, i)])

\* String.fromCharCode(c).toUpperCase(): the code units a string of the one
\* code unit c upper-cases to.
toUpperCaseUnit(c) ==
  LET special == {r \in UpperCaseSpecial : r[1] = c}
  IN  IF c < 128 THEN (IF c >= 97 /\ c <= 122 THEN <<c - 32>> ELSE <<c>>)
      ELSE IF special # {} THEN (CHOOSE r \in special : TRUE)[2]
      ELSE <<shifted(c, UpperCaseRuns)>>

\* Canonicalize(ch) of a regular expression with the i flag and without the u
\* flag: the upper-cased code unit, unless upper-casing gives several code
\* units or takes a non-ASCII unit to an ASCII one.
canonicalize(ch) ==
  LET u == toUpperCaseUnit(ch)
  IN  IF Len(u) # 1 THEN ch
      ELSE IF ch >= 128 /\ u[1] < 128 THEN ch
      ELSE u[1]

\* s.charAt(0).toUpperCase() + s.slice(1)
capitalize(s) ==
  IF Len(s) = 0 THEN <<>> ELSE toUpperCaseUnit(s[1]) \o SubSeq(s, 2, Len(s))

\* s.includes(t): t occurs in s as a contiguous run of code units.
includes(s, t) ==
  \E i \in 0..(Len(s) - Len(t)) : \A j \in 1..Len(t) : s[i + j] = t[j]

\* parts.join(sep)
RECURSIVE join(_, _)
join(parts, sep) ==
  IF Len(parts) = 0 THEN <<>>
  ELSE IF Len(parts) = 1 THEN parts[1]
  ELSE join(SubSeq(parts, 1, Len(parts) - 1), sep) \o sep \o parts[Len(parts)]

\* String(n) of a non-negative integer, as a template literal interpolates it.
RECURSIVE numberToString(_)
numberToString(n) ==
  IF n < 10 THEN <<48 + n>> ELSE numberToString(n \div 10) \o <<48 + (n % 10)>>

(***************************************************************************)
(* The corpus as the handlers read it.  The handlers close over the        *)
(* module-level object; here each operator takes the object it reads as    *)
(* its first parameter and the actions pass the variable `guidelines`.     *)
(***************************************************************************)
\* Object.keys(obj): own keys in insertion order.
keys(obj) == [i \in 1..Len(obj) |-> obj[i].key]

\* obj[key] for the keys the input schemas let through; undefined if absent.
lookup(obj, key) ==
  IF \E i \in 1..Len(obj) : obj[i].key = key
  THEN obj[CHOOSE i \in 1..Len(obj) : obj[i].key = key].rules
  ELSE undefined

\* The (category, rule) pairs in the order the nested forEach visits them.
RECURSIVE forEachRule(_)
forEachRule(obj) ==
  IF Len(obj) = 0 THEN <<>>
  ELSE forEachRule(SubSeq(obj, 1, Len(obj) - 1))
       \o [i \in 1..Len(obj[Len(obj)].rules) |->
             [cat |-> obj[Len(obj)].key, rule |-> obj[Len(obj)].rules[i]]]

\* rules.map((rule) => `- ${rule}`).join("\n")
bulletList(rules) == join([i \in 1..Len(rules) |-> lit_bullet \o rules[i]], lit_nl)

\* `**${cat}**: ${rule}`
tagged(e) == lit_bold \o e.cat \o lit_bold_colon \o e.rule

(***************************************************************************)
(* get_guidelines                                                          *)
(***************************************************************************)
\* The "all" branch, route.ts:113-120.
allGuidelines(obj) ==
  join([i \in 1..Len(obj) |->
          lit_h2 \o capitalize(obj[i].key) \o lit_nl \o bulletList(obj[i].rules)],
       lit_nlnl)

\* Mutant: the rules of every category are listed, not those of `category`.
formattedGuidelines_everyRule(obj, category) ==
  lit_h2 \o capitalize(category) \o lit_guidelines_suffix
  \o bulletList([i \in 1..Len(forEachRule(obj)) |-> forEachRule(obj)[i].rule])

\* The block of one category, route.ts:140-144.
formattedGuidelines(obj, category) ==
  lit_h2 \o capitalize(category) \o lit_guidelines_suffix
  \o bulletList(lookup(obj, category))

\* The message of the `!categoryGuidelines` branch, route.ts:132-134.
categoryNotFound(obj, category) ==
  lit_category_open \o category \o lit_not_found \o join(keys(obj), lit_comma)

\* The text get_guidelines returns; the parameter defaults to "all".
get_guidelines_text(obj, arg) ==
  LET category == IF arg = undefined THEN str_all ELSE arg
  IN  IF category = str_all THEN allGuidelines(obj)
      ELSE IF lookup(obj, category) = undefined THEN categoryNotFound(obj, category)
      ELSE formattedGuidelines(obj, category)

(***************************************************************************)
(* search_guidelines                                                       *)
(***************************************************************************)
\* Mutant: the rule is compared as written, without toLowerCase().
ruleMatches_caseSensitive(rule, searchTerm) == includes(rule, searchTerm)

\* The test of route.ts:163.
ruleMatches(rule, searchTerm) == includes(toLowerCase(rule), searchTerm)

\* Mutant: each match is put in front of the earlier ones (unshift for push).
searchResults_unshift(obj, query) ==
  LET searchTerm == toLowerCase(query)
      hits == SelectSeq(forEachRule(obj),
                        LAMBDA e : includes(toLowerCase(e.rule), searchTerm))
  IN  [i \in 1..Len(hits) |-> lit_bold \o hits[Len(hits) + 1 - i].cat
                               \o lit_bold_colon \o hits[Len(hits) + 1 - i].rule]

\* The `results` array after the two forEach loops, route.ts:158-167.
searchResults(obj, query) ==
  LET searchTerm == toLowerCase(query)
      hits == SelectSeq(forEachRule(obj),
                        LAMBDA e : ruleMatches(e.rule, searchTerm))
  IN  [i \in 1..Len(hits) |-> tagged(hits[i])]

\* The text search_guidelines returns, route.ts:169-186.
search_guidelines_text(query, results) ==
  IF Len(results) = 0
  THEN lit_no_match \o query \o lit_quote
  ELSE lit_found \o numberToString(Len(results)) \o lit_matching \o query
       \o lit_found_end \o join(results, lit_nlnl)

(***************************************************************************)
(* validate_pattern                                                        *)
(***************************************************************************)
\* `category ? { [category]: guidelines[category] } : guidelines`, route.ts:208-210.
relevantGuidelines(obj, category) ==
  IF category # undefined /\ category # <<>>
  THEN <<[key |-> category, rules |-> lookup(obj, category)]>>
  ELSE obj

\* The condition of route.ts:219-223.
hasNegativeMarker(lowerRule) ==
  \/ includes(lowerRule, marker_avoid)
  \/ includes(lowerRule, marker_dont)
  \/ includes(lowerRule, marker_prevent)

\* The condition of route.ts:228-232.
hasPositiveMarker(lowerRule) ==
  \/ includes(lowerRule, marker_use)
  \/ includes(lowerRule, marker_apply)
  \/ includes(lowerRule, marker_ensure)

\* Whether the literal m matches s at offset i (0-based), ignoring case.
matchesAt(s, i, m) ==
  /\ i + Len(m) <= Len(s)
  /\ \A j \in 1..Len(m) : canonicalize(s[i + j]) = canonicalize(m[j])

\* The length of the one literal of `matching`; 0 if there is none.
lengthOfMatch(matching) ==
  IF matching = {} THEN 0 ELSE Len(CHOOSE m \in matching : TRUE)

\* The length of what /avoid|don't|prevent/i matches at offset i; 0 if nothing.
\* (The alternatives start with different letters: at most one matches.)
matchLength(s, i) ==
  lengthOfMatch({m \in {marker_avoid, marker_dont, marker_prevent} : matchesAt(s, i, m)})

\* The least offset of `found`; -1 if there is none.
firstOffset(found) ==
  IF found = {} THEN -1 ELSE CHOOSE i \in found : \A k \in found : i <= k

\* The offset of the first match at or after `from`; -1 if there is none.
nextMatch(s, from) == firstOffset({i \in from..Len(s) : matchLength(s, i) > 0})

\* The piece of s from offset `start` up to the match at offset `next`, or up
\* to the end of s if there is no further match.
pieceUpTo(s, start, next) == SubSeq(s, start + 1, IF next = -1 THEN Len(s) ELSE next)

\* The piece of s that follows the match ending at offset `start`.
pieceFrom(s, start) == pieceUpTo(s, start, nextMatch(s, start))

\* The second piece of s, given the offset of the first match.
secondPiece(s, match) ==
  IF match = -1 THEN undefined ELSE pieceFrom(s, match + matchLength(s, match))

\* rule.split(/avoid|don't|prevent/i)[1]: the text between the first match and
\* the second one (or the end of the string); undefined if nothing matches.
splitSecond(s) == secondPiece(s, nextMatch(s, 0))

\* The code units String.prototype.trim strips.
isWhiteSpace(c) ==
  \/ c \in {9, 10, 11, 12, 13, 32, 160, 5760, 8232, 8233, 8239, 8287, 12288, 65279}
  \/ (c >= 8192 /\ c <= 8202)

\* s?.trim()
trim(s) ==
  LET start == CHOOSE i \in 1..Len(s) :
                 ~isWhiteSpace(s[i]) /\ \A k \in 1..(i - 1) : isWhiteSpace(s[k])
      end == CHOOSE i \in 1..Len(s) :
               ~isWhiteSpace(s[i]) /\ \A k \in (i + 1)..Len(s) : isWhiteSpace(s[k])
  IN  IF s = undefined THEN undefined
      ELSE IF \A i \in 1..Len(s) : isWhiteSpace(s[i]) THEN <<>>
      ELSE SubSeq(s, start, end)

\* The fragment of route.ts:224.
issueOf(rule) == trim(splitSecond(rule))

\* Whether the rule is pushed to `violations`, route.ts:219-227.
isViolation(rule, pattern) ==
  LET issue == issueOf(rule)
  IN  /\ hasNegativeMarker(toLowerCase(rule))
      /\ issue # undefined
      /\ issue # <<>>
      /\ includes(toLowerCase(pattern), toLowerCase(issue))

\* Mutant: the positive markers are tested in an `if` of their own, not in the
\* `else` of the negative ones.
isRecommendation_fallthrough(rule) == hasPositiveMarker(toLowerCase(rule))

\* Whether the rule is pushed to `recommendations`, route.ts:228-234.
isRecommendation(rule) ==
  /\ ~hasNegativeMarker(toLowerCase(rule))
  /\ hasPositiveMarker(toLowerCase(rule))

\* The `violations` array after the loops.
violationsOf(obj, pattern, category) ==
  LET hits == SelectSeq(forEachRule(relevantGuidelines(obj, category)),
                        LAMBDA e : isViolation(e.rule, pattern))
  IN  [i \in 1..Len(hits) |-> tagged(hits[i])]

\* The `recommendations` array after the loops.
recommendationsOf(obj, category) ==
  LET hits == SelectSeq(forEachRule(relevantGuidelines(obj, category)),
                        LAMBDA e : isRecommendation(e.rule))
  IN  [i \in 1..Len(hits) |-> tagged(hits[i])]

\* Mutant: the list is not cut.
shownRecommendations_uncut(recommendations) == recommendations

\* recommendations.slice(0, 5)
shownRecommendations(recommendations) ==
  SubSeq(recommendations, 1,
         IF Len(recommendations) < 5 THEN Len(recommendations) ELSE 5)

\* Mutant: the recommendations section is appended before the issues section.
validate_pattern_text_recommendationsFirst(pattern, violations, recommendations) ==
  lit_validation_header \o pattern \o lit_header_end
  \o (IF Len(recommendations) > 0
      THEN lit_recommendations \o join(shownRecommendations(recommendations), lit_nl)
           \o lit_nlnl
      ELSE <<>>)
  \o (IF Len(violations) > 0
      THEN lit_issues \o join(violations, lit_nl) \o lit_nlnl ELSE <<>>)
  \o (IF Len(violations) = 0 /\ Len(recommendations) = 0
      THEN lit_nothing_found ELSE <<>>)

\* The report, route.ts:238-253.
validate_pattern_text(pattern, violations, recommendations) ==
  lit_validation_header \o pattern \o lit_header_end
  \o (IF Len(violations) > 0
      THEN lit_issues \o join(violations, lit_nl) \o lit_nlnl ELSE <<>>)
  \o (IF Len(recommendations) > 0
      THEN lit_recommendations \o join(shownRecommendations(recommendations), lit_nl)
           \o lit_nlnl
      ELSE <<>>)
  \o (IF Len(violations) = 0 /\ Len(recommendations) = 0
      THEN lit_nothing_found ELSE <<>>)

(***************************************************************************)
(* get_updated_docs                                                        *)
(***************************************************************************)
\* The length the preview is cut to (substring(0, 2000)).
previewLength == 2000

\* fetchLatestDocs, route.ts:4-15.  `outcome` is what the network did:
\* fetch() rejected, or resolved with a response of some status whose text()
\* resolved with the body or rejected.  The status is never looked at.
fetchLatestDocs(outcome) ==
  IF outcome.rejected \/ ~outcome.readable THEN null ELSE outcome.body

\* The text get_updated_docs returns, route.ts:270-297.
get_updated_docs_text(format, githubDocs) ==
  IF githubDocs = null \/ githubDocs = <<>>
  THEN lit_fetch_failed
  ELSE lit_docs_header
       \o (IF format = str_preview
           THEN lit_fence_open
                \o SubSeq(githubDocs, 1,
                          IF Len(githubDocs) < previewLength
                          THEN Len(githubDocs) ELSE previewLength)
                \o (IF Len(githubDocs) > previewLength THEN lit_truncated ELSE <<>>)
                \o lit_fence_close
           ELSE lit_fence_open \o githubDocs \o lit_fence_close)

(***************************************************************************)
(* get_quick_tips                                                          *)
(***************************************************************************)
\* The text get_quick_tips returns, route.ts:361-364.
get_quick_tips_text(scenario) ==
  lit_h2 \o capitalize(scenario) \o lit_quick_tips \o bulletList(lookup(tips, scenario))

(***************************************************************************)
(* The input schemas (zod) the gateway checks before it calls a handler    *)
(***************************************************************************)
\* z.enum([...]) of get_guidelines, route.ts:98-109.
z_category_or_all ==
  {str_interactivity, str_typography, str_motion, str_touch, str_accessibility,
   str_optimizations, str_design, str_all}

\* z.enum([...]) of validate_pattern, route.ts:195-205.
z_category ==
  {str_interactivity, str_typography, str_motion, str_touch, str_accessibility,
   str_optimizations, str_design}

\* z.enum(["full", "preview"]), route.ts:265.
z_format == {str_full, str_preview}

\* z.enum([...]) of get_quick_tips, route.ts:305-312.
z_scenario ==
  {str_forms, str_buttons, str_animations, str_mobile, str_accessibility,
   str_optimizations}

\* z.string(): any string, the empty one included; not undefined.
z_string(v) == v # undefined /\ v # null

\* Whether the arguments of `call` pass the schema of its tool.
schemaAccepts(call) ==
  CASE call.tool = "get_guidelines" ->
         call.category = undefined \/ call.category \in z_category_or_all
    [] call.tool = "search_guidelines" -> z_string(call.query)
    [] call.tool = "validate_pattern" ->
         /\ z_string(call.pattern)
         /\ (call.category = undefined \/ call.category \in z_category)
    [] call.tool = "get_updated_docs" ->
         call.format = undefined \/ call.format \in z_format
    [] call.tool = "get_quick_tips" -> call.scenario \in z_scenario

\* The arguments the handler receives: .default("preview") fills in the format.
parsed(call) ==
  IF call.tool = "get_updated_docs" /\ call.format = undefined
  THEN [call EXCEPT !.format = str_preview]
  ELSE call

(***************************************************************************)
(* Bounds and inputs                                                       *)
(***************************************************************************)
MaxQueryLen == 2
MaxPatternParts == 2
MaxInflight == 1

\* All strings over `alphabet` of at most n code units.
StringsUpTo(alphabet, n) == UNION {[1..k -> alphabet] : k \in 0..n}

\* "a", "R", "q"
QueryAlphabet == {97, 82, 113}

NamedQueries ==
  { \* "aria-label"
    <<97,114,105,97,45,108,97,98,101,108>>,
    \* "ANIMATION"
    <<65,78,73,77,65,84,73,79,78>>,
    \* "xyzzy"
    <<120,121,122,122,121>>,
    \* "→"
    <<8594>>,
    \* "\u212A" (KELVIN SIGN, lower-cased to "k")
    <<8490>>,
    \* "\u0130" (lower-cased to the two code units "i\u0307")
    <<304>> }

Queries == StringsUpTo(QueryAlphabet, MaxQueryLen) \cup NamedQueries \cup {undefined}

\* Fragments that follow a negative marker in some statement of the corpus.
PatternFragments ==
  << \* "duplicate network requests"
     <<100,117,112,108,105,99,97,116,101,32,110,101,116,119,111,114,107,32,114,101,113,117,101,115,116,115>>,
     \* "Layout Shift"
     <<76,97,121,111,117,116,32,83,104,105,102,116>>,
     \* "iOS zooming on focus"
     <<105,79,83,32,122,111,111,109,105,110,103,32,111,110,32,102,111,99,117,115>>,
     \* "janky URL changes"
     <<106,97,110,107,121,32,85,82,76,32,99,104,97,110,103,101,115>> >>

NamedPatterns ==
  { \* "I added a tooltip to my disabled button"
    <<73,32,97,100,100,101,100,32,97,32,116,111,111,108,116,105,112,32,116,111,32,109,121,32,100,105,115,97,98,108,101,100,32,98,117,116,116,111,110>>,
    \* "duplicate network requests Layout Shift iOS zooming on focus janky URL changes interference from native behavior like zooming and scrolling scale buttons on press from 1 \u2192 0.8, but ~0.96, ~0.9, or so"
    <<100,117,112,108,105,99,97,116,101,32,110,101,116,119,111,114,107,32,114,101,113,117,101,115,116,115,32,76,97,121,111,117,116,32,83,104,105,102,116,32,105,79,83,32,122,111,111,109,105,110,103,32,111,110,32,102,111,99,117,115,32,106,97,110,107,121,32,85,82,76,32,99,104,97,110,103,101,115,32,105,110,116,101,114,102,101,114,101,110,99,101,32,102,114,111,109,32,110,97,116,105,118,101,32,98,101,104,97,118,105,111,114,32,108,105,107,101,32,122,111,111,109,105,110,103,32,97,110,100,32,115,99,114,111,108,108,105,110,103,32,115,99,97,108,101,32,98,117,116,116,111,110,115,32,111,110,32,112,114,101,115,115,32,102,114,111,109,32,49,32,8594,32,48,46,56,44,32,98,117,116,32,126,48,46,57,54,44,32,126,48,46,57,44,32,111,114,32,115,111>>,
    \* "jan\u212Ay URL changes"
    <<106,97,110,8490,121,32,85,82,76,32,99,104,97,110,103,101,115>>,
    \* "Layout Shift"
    <<76,97,121,111,117,116,32,83,104,105,102,116>> }

\* The first k fragments joined by single spaces, for every k up to
\* MaxPatternParts (no fragment gives the empty pattern), and the named ones.
Patterns ==
  {join(SubSeq(PatternFragments, 1, k), <<32>>) :
     k \in 0..(IF MaxPatternParts < Len(PatternFragments)
               THEN MaxPatternParts ELSE Len(PatternFragments))}
  \cup NamedPatterns

\* A document of n code units.
Document(n) == [i \in 1..n |-> 97 + (i % 26)]

\* The bodies the documentation URL may answer with: nothing, GitHub's short
\* error page, a text of exactly previewLength units and a longer one.
Bodies ==
  { <<>>,
    \* "404: Not Found"
    <<52,48,52,58,32,78,111,116,32,70,111,117,110,100>>,
    Document(previewLength),
    Document(previewLength + 1) }

Statuses == {200, 404}

\* How `await fetch(...)` can settle: the promise rejects (no connection), or
\* it resolves with a response of some status.
FetchSettlements ==
  {[rejected |-> TRUE, status |-> 0]}
  \cup {[rejected |-> FALSE, status |-> s] : s \in Statuses}

\* How `await response.text()` can settle: the promise rejects (the body
\* cannot be read), or it resolves with the body.
TextSettlements ==
  {[readable |-> FALSE, body |-> <<>>]}
  \cup {[readable |-> TRUE, body |-> b] : b \in Bodies}

\* For the repeated calls: the network is down or the URL answers 200; the
\* document is served, or it has changed and is served.
RepeatFetchSettlements ==
  { [rejected |-> TRUE, status |-> 0], [rejected |-> FALSE, status |-> 200] }

RepeatTextSettlements ==
  { [readable |-> TRUE, body |-> Document(4)],
    [readable |-> TRUE, body |-> Document(5)] }

NoOutcome == [rejected |-> FALSE, status |-> 0, readable |-> FALSE, body |-> <<>>]

GuidelinesCalls ==
  {[tool |-> "get_guidelines", category |-> c] :
     c \in z_category_or_all \cup {undefined, str_bogus}}

SearchCalls == {[tool |-> "search_guidelines", query |-> q] : q \in Queries}

ValidateCalls ==
  {[tool |-> "validate_pattern", pattern |-> p, category |-> c] :
     p \in Patterns, c \in z_category \cup {undefined, str_bogus}}

DocsCalls ==
  {[tool |-> "get_updated_docs", format |-> f] :
     f \in z_format \cup {undefined, str_bogus}}

TipsCalls ==
  {[tool |-> "get_quick_tips", scenario |-> s] :
     s \in z_scenario \cup {undefined, str_bogus}}

Calls == GuidelinesCalls \cup SearchCalls \cup ValidateCalls \cup DocsCalls \cup TipsCalls

(***************************************************************************)
(* The server: the gateway hands one request at a time to its handler,     *)
(* which runs to its return or to its first await; a get_updated_docs      *)
(* invocation is suspended at each of its awaits while other requests are  *)
(* handled                                                                 *)
(***************************************************************************)
NoCall == [tool |-> "none"]
NoResponse == [call |-> NoCall, isError |-> FALSE, text |-> <<>>]
NoFrame ==
  [results |-> <<>>, violations |-> <<>>, recommendations |-> <<>>,
   outcome |-> NoOutcome]
Unset ==
  [set |-> FALSE, again |-> FALSE, isError |-> FALSE, text |-> <<>>,
   outcome |-> NoOutcome]

\* The calls whose repeated invocations are compared: one of each tool.
WatchedCalls ==
  { [tool |-> "get_guidelines", category |-> str_motion],
    \* "aria-label"
    [tool |-> "search_guidelines", query |-> <<97,114,105,97,45,108,97,98,101,108>>],
    \* "Layout Shift"
    [tool |-> "validate_pattern", category |-> str_typography,
     pattern |-> <<76,97,121,111,117,116,32,83,104,105,102,116>>],
    [tool |-> "get_updated_docs", format |-> str_preview],
    [tool |-> "get_quick_tips", scenario |-> str_forms] }

\* The calls that run before and between them.
OtherCalls ==
  { [tool |-> "get_guidelines", category |-> undefined],
    [tool |-> "search_guidelines", query |-> <<>>],
    \* "duplicate network requests"
    [tool |-> "validate_pattern", category |-> str_interactivity,
     pattern |-> <<100,117,112,108,105,99,97,116,101,32,110,101,116,119,111,114,107,32,114,101,113,117,101,115,116,115>>],
    [tool |-> "get_updated_docs", format |-> str_full],
    [tool |-> "get_quick_tips", scenario |-> str_bogus] }

RepeatCalls == WatchedCalls \cup OtherCalls

\* The calls that arrive while a get_updated_docs invocation is suspended: the
\* two of each tool above and every get_updated_docs call.
OverlappingCalls == RepeatCalls \cup DocsCalls

\* `first` after `call` has returned `text`: the first result of the watched
\* call is remembered, and that it has been invoked again is noted.
remember(call, isError, text, outcome) ==
  IF call # watch THEN first
  ELSE IF first.set THEN [first EXCEPT !.again = TRUE]
  ELSE [set |-> TRUE, again |-> FALSE, isError |-> isError, text |-> text,
        outcome |-> outcome]

\* A handler returns { content: [{ type: "text", text }] }.  `response` shows
\* the result returned last: a result returned before it and still unsent is in
\* the gateway's hands and no longer shown.
Return(call, text, locals) ==
  /\ response' = [call |-> call, isError |-> FALSE, text |-> text]
  /\ frame' = locals
  /\ first' = remember(call, FALSE, text, locals.outcome)

Idle == request = NoCall /\ response = NoResponse

\* The gateway takes a tools/call request and checks its arguments against the
\* tool's schema: a call that fails the check is answered with an error and
\* its handler never runs.  The requests that arrive while an invocation of
\* get_updated_docs is suspended are those of OverlappingCalls.
Receive(call) ==
  /\ Idle
  /\ inflight # EmptyBag => call \in OverlappingCalls
  /\ call.tool = "get_updated_docs" => BagCardinality(inflight) < MaxInflight
  /\ IF schemaAccepts(call)
     THEN /\ request' = call
          /\ UNCHANGED <<response, first>>
     ELSE /\ response' = [call |-> call, isError |-> TRUE, text |-> <<>>]
          /\ first' = remember(call, TRUE, <<>>, NoOutcome)
          /\ UNCHANGED request
  /\ UNCHANGED <<guidelines, inflight, frame, watch>>

\* Mutant: the rules of the category asked for are reversed in place before
\* they are rendered (categoryGuidelines.reverse()).
get_guidelines_reversing ==
  /\ request.tool = "get_guidelines"
  /\ guidelines' =
       [c \in 1..Len(guidelines) |->
          IF guidelines[c].key = request.category
          THEN [guidelines[c] EXCEPT
                  !.rules = [i \in 1..Len(@) |-> @[Len(@) + 1 - i]]]
          ELSE guidelines[c]]
  /\ Return(request, get_guidelines_text(guidelines', parsed(request).category),
            NoFrame)
  /\ request' = NoCall
  /\ UNCHANGED <<inflight, watch>>

\* route.ts:111-148
get_guidelines ==
  /\ request.tool = "get_guidelines"
  /\ Return(request, get_guidelines_text(guidelines, parsed(request).category), NoFrame)
  /\ request' = NoCall
  /\ UNCHANGED <<guidelines, inflight, watch>>

\* route.ts:157-187
search_guidelines ==
  /\ request.tool = "search_guidelines"
  /\ LET results == searchResults(guidelines, parsed(request).query)
     IN  Return(request, search_guidelines_text(parsed(request).query, results),
                [NoFrame EXCEPT !.results = results])
  /\ request' = NoCall
  /\ UNCHANGED <<guidelines, inflight, watch>>

\* route.ts:207-258
validate_pattern ==
  /\ request.tool = "validate_pattern"
  /\ LET violations == violationsOf(guidelines, parsed(request).pattern,
                                    parsed(request).category)
         recommendations == recommendationsOf(guidelines, parsed(request).category)
     IN  Return(request,
                validate_pattern_text(parsed(request).pattern, violations,
                                      recommendations),
                [NoFrame EXCEPT !.violations = violations,
                                !.recommendations = recommendations])
  /\ request' = NoCall
  /\ UNCHANGED <<guidelines, inflight, watch>>

\* route.ts:267-268 and 6: the handler is called with the parsed arguments and
\* calls fetchLatestDocs, which starts the fetch and is suspended at
\* `await fetch(...)`.
get_updated_docs ==
  /\ request.tool = "get_updated_docs"
  /\ inflight' = inflight (+) SetToBag({[call |-> parsed(request), awaiting |-> "fetch",
                                        outcome |-> NoOutcome,
                                        githubDocs |-> undefined]})
  /\ request' = NoCall
  /\ UNCHANGED <<guidelines, response, frame, watch, first>>

\* route.ts:6-9 and 11-14: the fetch of a suspended invocation settles and
\* fetchLatestDocs resumes.  If the fetch rejected, the catch block logs the
\* error and returns null, which resolves the promise the handler waits for at
\* `await fetchLatestDocs()` (route.ts:268); if it resolved, fetchLatestDocs
\* calls response.text() and is suspended again at `await response.text()`.
\* The handler itself does not run in this step.
fetch_settles(invocation, settled) ==
  /\ BagIn(invocation, inflight)
  /\ invocation.awaiting = "fetch"
  /\ LET outcome == [invocation.outcome EXCEPT !.rejected = settled.rejected,
                                               !.status = settled.status]
         resumed == IF settled.rejected
                    THEN [invocation EXCEPT !.awaiting = "fetchLatestDocs",
                                            !.outcome = outcome,
                                            !.githubDocs = fetchLatestDocs(outcome)]
                    ELSE [invocation EXCEPT !.awaiting = "text",
                                            !.outcome = outcome]
     IN  inflight' = (inflight (-) SetToBag({invocation})) (+) SetToBag({resumed})
  /\ UNCHANGED <<guidelines, request, response, frame, watch, first>>

\* route.ts:9-14: the read of the body of a suspended invocation settles and
\* fetchLatestDocs resumes: it returns the body, or, if the read rejected, the
\* catch block logs the error and returns null.  Either way the promise the
\* handler waits for at `await fetchLatestDocs()` is resolved; the handler
\* itself does not run in this step.
text_settles(invocation, read) ==
  /\ BagIn(invocation, inflight)
  /\ invocation.awaiting = "text"
  /\ LET outcome == [invocation.outcome EXCEPT !.readable = read.readable,
                                               !.body = read.body]
         resumed == [invocation EXCEPT !.awaiting = "fetchLatestDocs",
                                       !.outcome = outcome,
                                       !.githubDocs = fetchLatestDocs(outcome)]
     IN  inflight' = (inflight (-) SetToBag({invocation})) (+) SetToBag({resumed})
  /\ UNCHANGED <<guidelines, request, response, frame, watch, first>>

\* route.ts:268-298: the handler resumes after `await fetchLatestDocs()` with
\* the value fetchLatestDocs returned and runs to its return.  Nothing makes it
\* wait for another request's handler or for the gateway.
get_updated_docs_resumes(invocation) ==
  /\ BagIn(invocation, inflight)
  /\ invocation.awaiting = "fetchLatestDocs"
  /\ Return(invocation.call,
            get_updated_docs_text(invocation.call.format, invocation.githubDocs),
            [NoFrame EXCEPT !.outcome = invocation.outcome])
  /\ inflight' = inflight (-) SetToBag({invocation})
  /\ UNCHANGED <<guidelines, request, watch>>

\* route.ts:314-369
get_quick_tips ==
  /\ request.tool = "get_quick_tips"
  /\ Return(request, get_quick_tips_text(parsed(request).scenario), NoFrame)
  /\ request' = NoCall
  /\ UNCHANGED <<guidelines, inflight, watch>>

\* The gateway has sent back what the handlers returned; their locals are gone.
Send ==
  /\ response # NoResponse
  /\ response' = NoResponse
  /\ frame' = NoFrame
  /\ UNCHANGED <<guidelines, request, inflight, watch, first>>

Init ==
  /\ guidelines = guidelines_literal
  /\ request = NoCall
  /\ inflight = EmptyBag
  /\ response = NoResponse
  /\ frame = NoFrame
  /\ watch = NoCall
  /\ first = Unset

\* As Init, with one call singled out to compare its invocations.
InitWatch ==
  /\ guidelines = guidelines_literal
  /\ request = NoCall
  /\ inflight = EmptyBag
  /\ response = NoResponse
  /\ frame = NoFrame
  /\ watch \in WatchedCalls
  /\ first = Unset

Next ==
  \/ \E call \in Calls : Receive(call)
  \/ get_guidelines
  \/ search_guidelines
  \/ validate_pattern
  \/ get_updated_docs
  \/ \E invocation \in BagToSet(inflight), settled \in FetchSettlements :
       fetch_settles(invocation, settled)
  \/ \E invocation \in BagToSet(inflight), read \in TextSettlements :
       text_settles(invocation, read)
  \/ \E invocation \in BagToSet(inflight) : get_updated_docs_resumes(invocation)
  \/ get_quick_tips
  \/ Send

Spec == Init /\ [][Next]_vars

\* The same server, taking the calls of RepeatCalls over and over while the
\* network answers in one of three ways.
NextWatch ==
  \/ \E call \in RepeatCalls : Receive(call)
  \/ get_guidelines
  \/ search_guidelines
  \/ validate_pattern
  \/ get_updated_docs
  \/ \E invocation \in BagToSet(inflight), settled \in RepeatFetchSettlements :
       fetch_settles(invocation, settled)
  \/ \E invocation \in BagToSet(inflight), read \in RepeatTextSettlements :
       text_settles(invocation, read)
  \/ \E invocation \in BagToSet(inflight) : get_updated_docs_resumes(invocation)
  \/ get_quick_tips
  \/ Send

SpecWatch == InitWatch /\ [][NextWatch]_vars

(***************************************************************************)
(* Reading a result text back: the parsers the properties below use.  They *)
(* take a text apart, where the handlers put one together.                 *)
(***************************************************************************)
Range(seq) == {seq[i] : i \in 1..Len(seq)}

\* Whether t occurs in s as a contiguous substring.
Occurs(s, t) == \E i \in 1..(Len(s) - Len(t) + 1) : SubSeq(s, i, i + Len(t) - 1) = t

StartsWith(s, t) == Len(t) <= Len(s) /\ SubSeq(s, 1, Len(t)) = t

\* The position of the first occurrence of sep in s; 0 if there is none.
FirstAt(s, sep) ==
  LET hits == {i \in 1..(Len(s) - Len(sep) + 1) :
                 s[i] = sep[1] /\ SubSeq(s, i, i + Len(sep) - 1) = sep}
  IN  IF hits = {} THEN 0 ELSE CHOOSE i \in hits : \A k \in hits : i <= k

\* The pieces of s between the occurrences of the (non-empty) separator.
RECURSIVE SplitOn(_, _)
SplitOn(s, sep) ==
  LET at == FirstAt(s, sep)
  IN  IF at = 0 THEN <<s>>
      ELSE <<SubSeq(s, 1, at - 1)>> \o SplitOn(SubSeq(s, at + Len(sep), Len(s)), sep)

\* The number a run of decimal digits writes.
RECURSIVE DecimalValue(_)
DecimalValue(digits) ==
  IF Len(digits) = 0 THEN 0
  ELSE 10 * DecimalValue(SubSeq(digits, 1, Len(digits) - 1)) + (digits[Len(digits)] - 48)

\* The (category, statement) a line `**category**: statement` names.
ParseTagged(line) ==
  LET body == SubSeq(line, Len(lit_bold) + 1, Len(line))
      at == FirstAt(body, lit_bold_colon)
  IN  IF ~StartsWith(line, lit_bold) \/ at = 0
      THEN [cat |-> undefined, rule |-> undefined]
      ELSE [cat |-> SubSeq(body, 1, at - 1),
            rule |-> SubSeq(body, at + Len(lit_bold_colon), Len(body))]

\* The positions <<category index, statement index>> of the corpus.
Positions(obj) == UNION {{<<c, i>> : i \in 1..Len(obj[c].rules)} : c \in 1..Len(obj)}

StatementAt(obj, p) == [cat |-> obj[p[1]].key, rule |-> obj[p[1]].rules[p[2]]]

\* Corpus order: category order, then statement order inside the category.
Before(p, r) == p[1] < r[1] \/ (p[1] = r[1] /\ p[2] < r[2])

(***************************************************************************)
(* search_guidelines: C1, C2, C10                                          *)
(***************************************************************************)
SearchAnswered == response.call.tool = "search_guidelines" /\ ~response.isError

\* The match blocks of a search result: what follows the "Found ..." header,
\* cut at the blank lines; none when the text is not headed so.
ReturnedBlocks(text) ==
  IF StartsWith(text, lit_found) THEN Tail(SplitOn(text, lit_nlnl)) ELSE <<>>

\* The count the "Found N guidelines ..." header states.
HeaderCount(text) ==
  LET rest == SubSeq(text, Len(lit_found) + 1, Len(text))
  IN  DecimalValue(SubSeq(rest, 1, FirstAt(rest, <<32>>) - 1))

\* `No guidelines found matching "QUERY"`
NoMatchMessage(query) == lit_no_match \o query \o lit_quote

\* The positions of the statements whose lower-cased text contains q.
MatchingPositions(obj, q) ==
  {p \in Positions(obj) : Occurs(toLowerCase(StatementAt(obj, p).rule), q)}

\* C1: for a non-empty query, the (category, statement) pairs search_guidelines
\* returns are exactly the pairs of the corpus whose lower-cased statement
\* contains the lower-cased query as a substring.
C1_SearchSoundAndComplete ==
  (SearchAnswered /\ response.call.query # <<>>) =>
    {ParseTagged(b) : b \in Range(ReturnedBlocks(response.text))}
    = {StatementAt(guidelines, p) :
         p \in MatchingPositions(guidelines, toLowerCase(response.call.query))}

\* A non-empty query that some statements match and others do not, one of
\* them only in another letter case.
C1_Witness ==
  /\ SearchAnswered
  /\ response.call.query # <<>>
  /\ response.call.query # toLowerCase(response.call.query)
  /\ Len(frame.results) > 0
  /\ Len(frame.results) < Cardinality(Positions(guidelines))

\* C2: the empty query is rejected: its answer lists no match at all and is
\* not the generic no-match message either.
C2_EmptyQueryRejected ==
  response.call = [tool |-> "search_guidelines", query |-> <<>>] =>
    /\ ReturnedBlocks(response.text) = <<>>
    /\ response.text # NoMatchMessage(<<>>)

\* C10: the matches are rendered in corpus order, one block per matching
\* position (no ranking, no deduplication), the header count is the number of
\* blocks, and without a match the text is the fixed no-match message.
C10_SearchRendering ==
  SearchAnswered =>
    LET query == response.call.query
        M == MatchingPositions(guidelines, toLowerCase(query))
        blocks == ReturnedBlocks(response.text)
    IN  IF M = {}
        THEN response.text = NoMatchMessage(query)
        ELSE /\ StartsWith(response.text, lit_found)
             /\ HeaderCount(response.text) = Len(blocks)
             /\ Len(blocks) = Cardinality(M)
             /\ \A p \in M :
                  ParseTagged(blocks[1 + Cardinality({r \in M : Before(r, p)})])
                  = StatementAt(guidelines, p)

\* Matches in two categories, several in one of them.
C10_Witness ==
  /\ SearchAnswered
  /\ \E p, r \in MatchingPositions(guidelines, toLowerCase(response.call.query)) :
       p[1] # r[1]
  /\ \E p, r \in MatchingPositions(guidelines, toLowerCase(response.call.query)) :
       p[1] = r[1] /\ p[2] # r[2]
  /\ Len(ReturnedBlocks(response.text)) >= 3

(***************************************************************************)
(* get_guidelines: C3, C4, C9                                              *)
(***************************************************************************)
GuidelinesAnswered == response.call.tool = "get_guidelines" /\ ~response.isError

\* C3: for a category of the corpus the output is a heading line naming it,
\* then one bullet line per statement of the category, each statement once
\* and in corpus order, and the text holds no statement of another category.
C3_CategoryBlock ==
  \A c \in 1..Len(guidelines) :
    (GuidelinesAnswered /\ response.call.category = guidelines[c].key) =>
      LET lines == SplitOn(response.text, lit_nl)
          rules == guidelines[c].rules
      IN  /\ Len(lines) = 1 + Len(rules)
          /\ StartsWith(lines[1], lit_h2)
          /\ Occurs(toLowerCase(lines[1]), guidelines[c].key)
          /\ \A i \in 1..Len(rules) : lines[i + 1] = lit_bullet \o rules[i]
          /\ \A p \in Positions(guidelines) :
               (p[1] # c /\ StatementAt(guidelines, p).rule \notin Range(rules))
               => ~Occurs(response.text, StatementAt(guidelines, p).rule)

\* The motion category has been asked for and answered with its seven bullets.
C3_Witness ==
  /\ GuidelinesAnswered
  /\ response.call.category = str_motion
  /\ Len(SplitOn(response.text, lit_nl)) = 8

\* C4: get_guidelines("all"), or with no category, returns the outputs of
\* get_guidelines(C) for the categories C in corpus order, a blank line between
\* them, so its length is the sum of theirs plus the separators.
C4_AllIsConcatenation ==
  (GuidelinesAnswered /\ response.call.category \in {str_all, undefined}) =>
    LET blocks == [c \in 1..Len(guidelines) |->
                     get_guidelines_text(guidelines, guidelines[c].key)]
    IN  /\ response.text = join(blocks, lit_nlnl)
        /\ Len(response.text) = Len(join(blocks, <<>>))
                                + Len(lit_nlnl) * (Len(blocks) - 1)

\* C9: a category outside the corpus is answered with a normal (non-error)
\* text that names every category of the corpus.
C9_UnknownCategoryListed ==
  response.call = [tool |-> "get_guidelines", category |-> str_bogus] =>
    /\ ~response.isError
    /\ \A c \in 1..Len(guidelines) : Occurs(response.text, guidelines[c].key)

(***************************************************************************)
(* validate_pattern: C5, C6                                                *)
(***************************************************************************)
ValidateAnswered == response.call.tool = "validate_pattern" /\ ~response.isError

\* The lines listed under `heading` in a report: the block that starts with
\* the heading line, without that line; none if there is no such block.
SectionLines(text, heading) ==
  LET blocks == SplitOn(text, lit_nlnl)
      mine == {k \in 1..Len(blocks) : StartsWith(blocks[k] \o lit_nl, heading)}
  IN  IF mine = {} THEN <<>>
      ELSE Tail(SplitOn(blocks[CHOOSE k \in mine : \A j \in mine : k <= j], lit_nl))

\* The corpus position of a (category, statement) pair.
PositionOf(obj, st) == CHOOSE p \in Positions(obj) : StatementAt(obj, p) = st

\* The tagged lines name statements in corpus order.
InScopeOrder(obj, list) ==
  \A i, j \in 1..Len(list) :
    i < j => Before(PositionOf(obj, ParseTagged(list[i])),
                    PositionOf(obj, ParseTagged(list[j])))

\* C5: the recommendations section lists the first 5 candidate
\* recommendations (all of them when there are fewer), in scope order; the
\* issues section lists every issue found.
C5_RecommendationCap ==
  ValidateAnswered =>
    LET shown == SectionLines(response.text, lit_recommendations)
        issues == SectionLines(response.text, lit_issues)
        candidates == frame.recommendations
    IN  /\ Len(shown) <= 5
        /\ Len(shown) = IF Len(candidates) < 5 THEN Len(candidates) ELSE 5
        /\ \A i \in 1..Len(shown) : shown[i] = candidates[i]
        /\ InScopeOrder(guidelines, candidates)
        /\ issues = frame.violations

\* More than 5 candidate recommendations and more than 5 issues at once.
C5_Witness ==
  /\ ValidateAnswered
  /\ Len(frame.recommendations) > 5
  /\ Len(frame.violations) > 5
  /\ Len(SectionLines(response.text, lit_issues)) > 5

\* C6: for "I added a tooltip to my disabled button" (no category) the
\* accessibility statement about disabled buttons and tooltips is listed
\* under "Potential Issues".
C6_TooltipIssueListed ==
  response.call =
    [tool |-> "validate_pattern", category |-> undefined,
     \* "I added a tooltip to my disabled button"
     pattern |-> <<73,32,97,100,100,101,100,32,97,32,116,111,111,108,116,105,112,32,116,111,32,109,121,32,100,105,115,97,98,108,101,100,32,98,117,116,116,111,110>>]
  => [cat |-> str_accessibility,
      \* "Disabled buttons should not have tooltips, they are not accessible"
      rule |-> <<68,105,115,97,98,108,101,100,32,98,117,116,116,111,110,115,32,115,104,111,117,108,100,32,110,111,116,32,104,97,118,101,32,116,111,111,108,116,105,112,115,44,32,116,104,101,121,32,97,114,101,32,110,111,116,32,97,99,99,101,115,115,105,98,108,101>>]
     \in {ParseTagged(l) : l \in Range(SectionLines(response.text, lit_issues))}

(***************************************************************************)
(* get_updated_docs: C7                                                    *)
(***************************************************************************)
\* The fetch failed in transport (fetch() or text() rejected) or the response
\* has a status outside 200..299.
FetchFailed(outcome) ==
  outcome.rejected \/ ~outcome.readable \/ outcome.status \notin 200..299

\* C7: get_updated_docs never fails at its boundary, returns the fixed failure
\* message whenever the fetch failed, and renders document text only when the
\* fetch succeeded with a success status.
C7_FetchFailureMessage ==
  (response.call.tool = "get_updated_docs" /\ schemaAccepts(response.call)) =>
    /\ ~response.isError
    /\ FetchFailed(frame.outcome) => response.text = lit_fetch_failed
    /\ response.text # lit_fetch_failed => ~FetchFailed(frame.outcome)

(***************************************************************************)
(* Repeated invocations: C8                                                *)
(***************************************************************************)
\* The watched call has returned before and `response` is a result of it.
Repeated == first.set /\ response.call = watch

SameResult == response.text = first.text /\ response.isError = first.isError

\* C8 as stated: every invocation of a call returns what its first invocation
\* returned, whatever ran in between, and the corpus is never changed.
C8_IdenticalCallsIdenticalOutput ==
  /\ Repeated => SameResult
  /\ guidelines = guidelines_literal

\* C8 amended: so it is for get_guidelines, search_guidelines,
\* validate_pattern and get_quick_tips; get_updated_docs returns the same
\* output for the same format when the fetch has the same outcome.
C8_IdenticalOutputGivenFetch ==
  /\ (Repeated /\ (watch.tool = "get_updated_docs" => frame.outcome = first.outcome))
     => SameResult
  /\ guidelines = guidelines_literal

\* The watched validate_pattern call has returned a second time while a
\* get_updated_docs invocation is suspended between its two awaits: its fetch
\* has resolved and the body is still being read.
C8_Witness ==
  /\ first.again
  /\ response.call = watch
  /\ watch.tool = "validate_pattern"
  /\ \E invocation \in BagToSet(inflight) : invocation.awaiting = "text"

(***************************************************************************)
(* validate_pattern: C11, C12, C13, C14                                    *)
(***************************************************************************)
\* The statements a section of the report lists, as (category, statement).
Listed(text, heading) == {ParseTagged(l) : l \in Range(SectionLines(text, heading))}

\* The corpus positions a call of validate_pattern looks at.
InScope(obj, category) ==
  {p \in Positions(obj) : category = undefined \/ obj[p[1]].key = category}

NegativeMarkers == {marker_avoid, marker_dont, marker_prevent}

ContainsNegativeMarker(rule) == \E m \in NegativeMarkers : Occurs(toLowerCase(rule), m)

\* The text of the statement after the first occurrence of a negative marker,
\* up to the end of the statement.
AfterFirstMarker(rule) ==
  LET lower == toLowerCase(rule)
      at(m) == FirstAt(lower, m)
      present == {m \in NegativeMarkers : at(m) > 0}
      earliest == CHOOSE m \in present : \A k \in present : at(m) <= at(k)
  IN  SubSeq(rule, at(earliest) + Len(earliest), Len(rule))

\* The test of the fragment: trimmed and lower-cased, at least 3 characters
\* long and a substring of the lower-cased pattern.
PassesIssueTest(rule, pattern) ==
  LET fragment == toLowerCase(trim(AfterFirstMarker(rule)))
  IN  Len(fragment) >= 3 /\ Occurs(toLowerCase(pattern), fragment)

\* C11: a statement in scope that contains a negative marker is listed as an
\* issue if and only if the text after its first marker, trimmed and
\* lower-cased, is at least 3 characters long and occurs in the lower-cased
\* pattern; whether it passes or not, it is no recommendation: neither a
\* candidate nor listed.
C11_NegativeStatementClassified ==
  ValidateAnswered =>
    \A p \in InScope(guidelines, response.call.category) :
      LET st == StatementAt(guidelines, p)
      IN  ContainsNegativeMarker(st.rule) =>
            /\ st \in Listed(response.text, lit_issues)
                 <=> PassesIssueTest(st.rule, response.call.pattern)
            /\ tagged(st) \notin Range(frame.recommendations)
            /\ st \notin Listed(response.text, lit_recommendations)

\* One negative statement passes the test and is listed as an issue, while
\* another, which also holds a positive marker, fails it and is dropped.
C11_Witness ==
  /\ ValidateAnswered
  /\ \E p, q \in InScope(guidelines, response.call.category) :
       LET passed == StatementAt(guidelines, p)
           failed == StatementAt(guidelines, q)
       IN  /\ ContainsNegativeMarker(passed.rule)
           /\ PassesIssueTest(passed.rule, response.call.pattern)
           /\ passed \in Listed(response.text, lit_issues)
           /\ ContainsNegativeMarker(failed.rule)
           /\ hasPositiveMarker(toLowerCase(failed.rule))
           /\ ~PassesIssueTest(failed.rule, response.call.pattern)
           /\ failed \notin Listed(response.text, lit_issues)
           /\ failed \notin Listed(response.text, lit_recommendations)

\* The whitespace-delimited tokens of a text: its maximal runs of code units
\* that are not white space.
Tokens(s) ==
  {SubSeq(s, i, j) : i \in 1..Len(s), j \in 1..Len(s)} \ {<<>>}

WhitespaceTokens(s) ==
  {t \in Tokens(s) :
     /\ \A k \in 1..Len(t) : ~isWhiteSpace(t[k])
     /\ \E i \in 1..(Len(s) - Len(t) + 1) :
          /\ SubSeq(s, i, i + Len(t) - 1) = t
          /\ (i = 1 \/ isWhiteSpace(s[i - 1]))
          /\ (i + Len(t) > Len(s) \/ isWhiteSpace(s[i + Len(t)]))}

\* Some token of the lower-cased pattern occurs in the lower-cased statement.
\* A pattern that is empty, or has white space at either end, is taken to
\* hold the empty token, which occurs in every statement.
TokenOverlap(pattern, rule) ==
  \/ pattern = <<>>
  \/ isWhiteSpace(pattern[1])
  \/ isWhiteSpace(pattern[Len(pattern)])
  \/ \E t \in WhitespaceTokens(toLowerCase(pattern)) : Occurs(toLowerCase(rule), t)

\* C12: when the call names a category, every statement listed as a
\* recommendation shares a token with the pattern; when it names none, every
\* in-scope statement with a positive marker and no negative one is a
\* candidate.
C12_RecommendationNeedsOverlap ==
  ValidateAnswered =>
    /\ response.call.category # undefined =>
         \A st \in Listed(response.text, lit_recommendations) :
           TokenOverlap(response.call.pattern, st.rule)
    /\ response.call.category = undefined =>
         \A p \in Positions(guidelines) :
           LET st == StatementAt(guidelines, p)
           IN  (hasPositiveMarker(toLowerCase(st.rule))
                /\ ~ContainsNegativeMarker(st.rule))
               => tagged(st) \in Range(frame.recommendations)

\* A letter, a digit or the underscore: what a word is made of.
IsWordUnit(c) ==
  \/ (c >= 97 /\ c <= 122)
  \/ (c >= 65 /\ c <= 90)
  \/ (c >= 48 /\ c <= 57)
  \/ c = 95

\* Whether the word w occurs in s as a whole word, whatever the case: no
\* word unit stands right before or right after the occurrence.
OccursAsWord(s, w) ==
  \E i \in 1..(Len(s) - Len(w) + 1) :
    /\ toLowerCase(SubSeq(s, i, i + Len(w) - 1)) = w
    /\ (i = 1 \/ ~IsWordUnit(s[i - 1]))
    /\ (i + Len(w) > Len(s) \/ ~IsWordUnit(s[i + Len(w)]))

NegativeWords ==
  { marker_avoid, marker_dont, marker_prevent,
    \* "do not"
    <<100,111,32,110,111,116>> }

PositiveWords ==
  { marker_use, marker_apply, marker_ensure,
    \* "leverage"
    <<108,101,118,101,114,97,103,101>>,
    \* "should"
    <<115,104,111,117,108,100>> }

MatchesNegativeWord(rule) == \E w \in NegativeWords : OccursAsWord(rule, w)

MatchesPositiveWord(rule) == \E w \in PositiveWords : OccursAsWord(rule, w)

\* C13: markers are whole words.  A statement listed as an issue holds one of
\* avoid, don't, do not, prevent as a word; a statement listed as a
\* recommendation holds one of use, apply, ensure, leverage, should as a word
\* (letters inside a longer word do not count); and an in-scope statement
\* that holds a positive word and no negative one is a candidate
\* recommendation.
C13_MarkersAreWholeWords ==
  ValidateAnswered =>
    /\ \A st \in Listed(response.text, lit_issues) : MatchesNegativeWord(st.rule)
    /\ \A st \in Listed(response.text, lit_recommendations) :
         MatchesPositiveWord(st.rule)
    /\ \A p \in InScope(guidelines, response.call.category) :
         LET st == StatementAt(guidelines, p)
         IN  (MatchesPositiveWord(st.rule) /\ ~MatchesNegativeWord(st.rule))
             => tagged(st) \in Range(frame.recommendations)

\* The header of the report on `pattern`.
ReportHeader(pattern) == lit_validation_header \o pattern \o lit_header_end

\* What follows the header in a report on `pattern`.
ReportBody(text, pattern) == SubSeq(text, Len(ReportHeader(pattern)) + 1, Len(text))

\* C14: the report starts with the header naming the pattern; after it the
\* issues section is there if and only if an issue was found, the
\* recommendations section if and only if a recommendation was found, the
\* issues section comes first when both are there, and the "nothing found"
\* message is there if and only if both lists are empty.
C14_ReportLayout ==
  ValidateAnswered =>
    LET body == ReportBody(response.text, response.call.pattern)
        issuesAt == FirstAt(body, lit_issues)
        recommendationsAt == FirstAt(body, lit_recommendations)
        nothingAt == FirstAt(body, lit_nothing_found)
    IN  /\ StartsWith(response.text, ReportHeader(response.call.pattern))
        /\ issuesAt > 0 <=> Len(frame.violations) > 0
        /\ recommendationsAt > 0 <=> Len(frame.recommendations) > 0
        /\ (issuesAt > 0 /\ recommendationsAt > 0) =>
             /\ issuesAt = 1
             /\ issuesAt < recommendationsAt
        /\ nothingAt > 0
             <=> (Len(frame.violations) = 0 /\ Len(frame.recommendations) = 0)
        /\ nothingAt > 0 => body = lit_nothing_found

\* A report with both sections, the issues first.
C14_Witness ==
  /\ ValidateAnswered
  /\ Len(frame.violations) > 0
  /\ Len(frame.recommendations) > 0
  /\ FirstAt(response.text, lit_issues) > 0
  /\ FirstAt(response.text, lit_issues) < FirstAt(response.text, lit_recommendations)

\* A report of a call that found nothing: the header and the message.
C14_NothingFoundReached ==
  /\ ValidateAnswered
  /\ Len(frame.violations) = 0
  /\ Len(frame.recommendations) = 0
  /\ response.text = ReportHeader(response.call.pattern) \o lit_nothing_found
====
